---- MODULE Spec2Model ----
(***************************************************************************)
(* TermiPaint: the character grid (Canvas), the change tracker             *)
(* (OperationBuilder), the undo/redo engine (History) and the brush stamp  *)
(* that feeds points into the change tracker.                              *)
(*                                                                         *)
(* Canvas cells are kept row-major in a sequence; the code's 0-based index *)
(* i is the sequence position i + 1.                                       *)
(***************************************************************************)
EXTENDS Integers, Sequences, FiniteSets, TLC

\* ------------------------------------------------------------------ bounds
\* Largest width/height handed to Canvas::new and resize_preserve.
MaxDim == 2
\* Largest capacity handed to History::new.
MaxCap == 2
\* Number of calls in one explored run: of any Canvas, OperationBuilder and
\* History method (Spec), of the gesture and History methods alone
\* (SpecHistory), of brush stamps and single applies (SpecStamp).
MaxSteps == 4
MaxHistSteps == 5
MaxStampSteps == 3
\* Largest absolute coordinate of the points handed to the tools.rs functions.
MaxPt == 3
\* Largest width/height of the canvases handed to flood_fill_points.
MaxFillDim == 3
\* Number of fill clicks, undos and redos in one explored run (SpecFill).
MaxFillSteps == 3
\* Number of calls of tools.rs functions in one explored run (SpecTools,
\* SpecFlood).
MaxToolCalls == 1

\* Number of events in one explored run of the application (SpecApp).
MaxEvents == 5
\* Number of mouse events and of tool, undo and redo keys in one explored run
\* (SpecDrag).
MaxDragEvents == 6
\* Number of mouse events, undo and redo keys and resizing frames in one
\* explored run (SpecResize).
MaxResizeEvents == 6
\* Number of characters typed after the default name of a prompt.
MaxTyped == 1

\* Calls explored when one builder paints a cell and paints it back.
MaxDegSteps == 7

\* Events and canvas width explored when the History evicts.
MaxStackEvents == 9
MaxStackWidth == 3

\* Canvas side and mouse events explored when a freehand drag joins mouse
\* positions that are not adjacent.
MaxGapDim == 4
MaxGapEvents == 3

\* Canvas side and events explored when keys, the wheel and right clicks
\* change the drawing parameters during a gesture; the highest digit key, and
\* the last brush and colour button of the toolbar, that are pressed.
MaxParamDim == 3
MaxParamEvents == 3
MaxColorKey == 2

\* Largest column and row of the corners handed to ellipse_points when the
\* box is wide and flat.
MaxWide == 16
MaxFlat == 2

\* Brush sizes the application allows (main.rs, '[' and ']' keys).
MinBrush == 1
MaxBrush == 3
\* u16 arithmetic of `x as u16`.
U16 == 65536

\* ------------------------------------------------------------------ cells
\* PaintCell::blank
blank == [ch |-> " ", fg |-> "Default", bg |-> "None"]

\* PaintCell::new
PaintCell_new(ch, fg) == [ch |-> ch, fg |-> fg, bg |-> "None"]

\* The cell values the explored calls write.
CellValues == {blank, PaintCell_new("#", "White"), PaintCell_new("x", "Red")}

\* ----------------------------------------------------------------- Canvas
Max(a, b) == IF a >= b THEN a ELSE b
Min(a, b) == IF a <= b THEN a ELSE b

\* Canvas::new
Canvas_new(w, h) ==
    LET width == Max(w, 1)
        height == Max(h, 1)
    IN [width |-> width, height |-> height,
        cells |-> [i \in 1..(width * height) |-> blank]]

\* in_bounds_i32 without the x >= 0 test.
in_bounds_no_sign(c, x, y) == y >= 0 /\ x < c.width /\ y < c.height

\* Canvas::in_bounds_i32
in_bounds_i32(c, x, y) == x >= 0 /\ y >= 0 /\ x < c.width /\ y < c.height

\* Canvas::index (0-based)
index(c, x, y) == y * c.width + x

\* Canvas::get
get(c, x, y) ==
    IF x >= c.width \/ y >= c.height
    THEN blank
    ELSE c.cells[index(c, x, y) + 1]

\* Option<PaintCell>: None is the empty set, Some(v) the set of v alone.
None == {}
Some(v) == {v}

\* Canvas::get_i32
get_i32(c, x, y) ==
    IF ~in_bounds_i32(c, x, y)
    THEN None
    ELSE Some(get(c, x % U16, y % U16))

\* set with the range test off by one: x > width, y > height.
set_off_by_one(c, x, y, cell) ==
    IF x > c.width \/ y > c.height
    THEN c
    ELSE [c EXCEPT !.cells[index(c, x, y) + 1] = cell]

\* Canvas::set
set(c, x, y, cell) ==
    IF x >= c.width \/ y >= c.height
    THEN c
    ELSE [c EXCEPT !.cells[index(c, x, y) + 1] = cell]

\* resize_preserve without the clamp of the new size to 1.
resize_no_clamp(c, w, h) ==
    LET copy_w == Min(c.width, w)
        copy_h == Min(c.height, h)
    IN IF c.width = w /\ c.height = h
       THEN c
       ELSE [width |-> w, height |-> h,
             cells |-> [i \in 1..(w * h) |->
                 LET x == (i - 1) % w
                     y == (i - 1) \div w
                 IN IF x < copy_w /\ y < copy_h
                    THEN c.cells[index(c, x, y) + 1]
                    ELSE blank]]

\* resize_preserve placing the copied cells with the old width as the row
\* stride of the new cells (new_idx = y * self.width + x).
resize_old_stride(c, w, h) ==
    LET new_width == Max(w, 1)
        new_height == Max(h, 1)
        copy_w == Min(c.width, new_width)
        copy_h == Min(c.height, new_height)
    IN IF c.width = new_width /\ c.height = new_height
       THEN c
       ELSE [width |-> new_width, height |-> new_height,
             cells |-> [i \in 1..(new_width * new_height) |->
                 LET x == (i - 1) % c.width
                     y == (i - 1) \div c.width
                 IN IF x < copy_w /\ y < copy_h
                    THEN c.cells[index(c, x, y) + 1]
                    ELSE blank]]

\* Canvas::resize_preserve
resize_preserve(c, w, h) ==
    LET new_width == Max(w, 1)
        new_height == Max(h, 1)
        copy_w == Min(c.width, new_width)
        copy_h == Min(c.height, new_height)
    IN IF c.width = new_width /\ c.height = new_height
       THEN c
       ELSE [width |-> new_width, height |-> new_height,
             cells |-> [i \in 1..(new_width * new_height) |->
                 LET x == (i - 1) % new_width
                     y == (i - 1) \div new_width
                 IN IF x < copy_w /\ y < copy_h
                    THEN c.cells[index(c, x, y) + 1]
                    ELSE blank]]

\* -------------------------------------------------------------- Operation
\* Operation::is_empty
is_empty(op) == Len(op) = 0

\* apply_before writing each change's after value instead of its before value.
RECURSIVE apply_before_after(_, _)
apply_before_after(op, c) ==
    IF op = <<>> THEN c
    ELSE apply_before_after(Tail(op),
                            set(c, Head(op).x, Head(op).y, Head(op).after))

\* Operation::apply_before: the changes in order, each through Canvas::set.
RECURSIVE apply_before(_, _)
apply_before(op, c) ==
    IF op = <<>> THEN c
    ELSE apply_before(Tail(op), set(c, Head(op).x, Head(op).y, Head(op).before))

\* Operation::apply_after
RECURSIVE apply_after(_, _)
apply_after(op, c) ==
    IF op = <<>> THEN c
    ELSE apply_after(Tail(op), set(c, Head(op).x, Head(op).y, Head(op).after))

\* ------------------------------------------------------- OperationBuilder
\* OperationBuilder::new: the HashMap is a function from its keys <<x, y>>.
OperationBuilder_new == [changes |-> <<>>]

\* apply re-reading `before` on every call: a coordinate touched again
\* records the value it had before the latest write, not before the first.
apply_rereads_before(b, c, x, y, new_cell) ==
    IF ~in_bounds_i32(c, x, y)
    THEN [builder |-> b, canvas |-> c, branch |-> "apply_oob"]
    ELSE LET ux == x % U16
             uy == y % U16
             before == get(c, ux, uy)
             key == <<ux, uy>>
         IN IF before = new_cell
            THEN [builder |-> b, canvas |-> c, branch |-> "apply_noop"]
            ELSE [builder |-> [changes |->
                      [k \in DOMAIN b.changes \cup {key} |->
                          IF k = key
                          THEN [x |-> ux, y |-> uy,
                                before |-> before, after |-> new_cell]
                          ELSE b.changes[k]]],
                  canvas |-> set(c, ux, uy, new_cell),
                  branch |-> IF key \in DOMAIN b.changes
                             THEN "apply_update" ELSE "apply_insert"]

\* apply without the `before == new_cell` return.
apply_records_noop(b, c, x, y, new_cell) ==
    IF ~in_bounds_i32(c, x, y)
    THEN [builder |-> b, canvas |-> c, branch |-> "apply_oob"]
    ELSE LET ux == x % U16
             uy == y % U16
             before == get(c, ux, uy)
             key == <<ux, uy>>
         IN IF key \in DOMAIN b.changes
            THEN [builder |-> [changes |->
                      [b.changes EXCEPT ![key].after = new_cell]],
                  canvas |-> set(c, ux, uy, new_cell),
                  branch |-> IF before = new_cell
                             THEN "apply_noop" ELSE "apply_update"]
            ELSE [builder |-> [changes |->
                      [k \in DOMAIN b.changes \cup {key} |->
                          IF k = key
                          THEN [x |-> ux, y |-> uy,
                                before |-> before, after |-> new_cell]
                          ELSE b.changes[k]]],
                  canvas |-> set(c, ux, uy, new_cell),
                  branch |-> IF before = new_cell
                             THEN "apply_noop" ELSE "apply_insert"]

\* apply leaving the recorded `after` alone when the coordinate is touched again.
apply_stale_after(b, c, x, y, new_cell) ==
    IF ~in_bounds_i32(c, x, y)
    THEN [builder |-> b, canvas |-> c, branch |-> "apply_oob"]
    ELSE LET ux == x % U16
             uy == y % U16
             before == get(c, ux, uy)
             key == <<ux, uy>>
         IN IF before = new_cell
            THEN [builder |-> b, canvas |-> c, branch |-> "apply_noop"]
            ELSE IF key \in DOMAIN b.changes
            THEN [builder |-> b,
                  canvas |-> set(c, ux, uy, new_cell),
                  branch |-> "apply_update"]
            ELSE [builder |-> [changes |->
                      [k \in DOMAIN b.changes \cup {key} |->
                          IF k = key
                          THEN [x |-> ux, y |-> uy,
                                before |-> before, after |-> new_cell]
                          ELSE b.changes[k]]],
                  canvas |-> set(c, ux, uy, new_cell),
                  branch |-> "apply_insert"]

\* apply forgetting a coordinate whose new value is the one recorded as its
\* `before`.
apply_drops_restored(b, c, x, y, new_cell) ==
    IF ~in_bounds_i32(c, x, y)
    THEN [builder |-> b, canvas |-> c, branch |-> "apply_oob"]
    ELSE LET ux == x % U16
             uy == y % U16
             before == get(c, ux, uy)
             key == <<ux, uy>>
         IN IF before = new_cell
            THEN [builder |-> b, canvas |-> c, branch |-> "apply_noop"]
            ELSE IF key \in DOMAIN b.changes
            THEN [builder |-> [changes |->
                      IF b.changes[key].before = new_cell
                      THEN [k \in DOMAIN b.changes \ {key} |-> b.changes[k]]
                      ELSE [b.changes EXCEPT ![key].after = new_cell]],
                  canvas |-> set(c, ux, uy, new_cell),
                  branch |-> "apply_update"]
            ELSE [builder |-> [changes |->
                      [k \in DOMAIN b.changes \cup {key} |->
                          IF k = key
                          THEN [x |-> ux, y |-> uy,
                                before |-> before, after |-> new_cell]
                          ELSE b.changes[k]]],
                  canvas |-> set(c, ux, uy, new_cell),
                  branch |-> "apply_insert"]

\* OperationBuilder::apply: the builder and the canvas after the call, with
\* the branch taken.
apply(b, c, x, y, new_cell) ==
    IF ~in_bounds_i32(c, x, y)
    THEN [builder |-> b, canvas |-> c, branch |-> "apply_oob"]
    ELSE LET ux == x % U16
             uy == y % U16
             before == get(c, ux, uy)
             key == <<ux, uy>>
         IN IF before = new_cell
            THEN [builder |-> b, canvas |-> c, branch |-> "apply_noop"]
            ELSE IF key \in DOMAIN b.changes
            THEN [builder |-> [changes |->
                      [b.changes EXCEPT ![key].after = new_cell]],
                  canvas |-> set(c, ux, uy, new_cell),
                  branch |-> "apply_update"]
            ELSE [builder |-> [changes |->
                      [k \in DOMAIN b.changes \cup {key} |->
                          IF k = key
                          THEN [x |-> ux, y |-> uy,
                                before |-> before, after |-> new_cell]
                          ELSE b.changes[k]]],
                  canvas |-> set(c, ux, uy, new_cell),
                  branch |-> "apply_insert"]

\* The sort key with its components swapped: (c.x, c.y).
KeyLess_xy(a, b) == a.x < b.x \/ (a.x = b.x /\ a.y < b.y)

\* The sort key of into_operation: (c.y, c.x), compared lexicographically.
KeyLess(a, b) == a.y < b.y \/ (a.y = b.y /\ a.x < b.x)

\* sort_by_key over the map's values.
RECURSIVE SortByKey(_)
SortByKey(S) ==
    IF S = {} THEN <<>>
    ELSE LET m == CHOOSE a \in S : \A b \in S : ~KeyLess(b, a)
         IN <<m>> \o SortByKey(S \ {m})

\* OperationBuilder::into_operation
into_operation(b) ==
    SortByKey({b.changes[k] : k \in DOMAIN b.changes})

\* ---------------------------------------------------------------- History
\* History::new
History_new(capacity) ==
    [undo_stack |-> <<>>, redo_stack |-> <<>>, capacity |-> capacity]

\* The eviction loop left out: the undo stack grows without limit.
Evict_never(stack, capacity) == stack

\* The eviction loop popping at the back: the newest operations go.
Evict_newest(stack, capacity) ==
    IF Len(stack) > capacity THEN SubSeq(stack, 1, capacity) ELSE stack

\* The eviction loop of History::push: pop_front while over capacity.
RECURSIVE Evict(_, _)
Evict(stack, capacity) ==
    IF Len(stack) > capacity THEN Evict(Tail(stack), capacity) ELSE stack

\* push without redo_stack.clear().
push_keep_redo(h, op) ==
    IF is_empty(op)
    THEN h
    ELSE [h EXCEPT !.undo_stack = Evict(Append(h.undo_stack, op), h.capacity)]

\* push without the is_empty return.
push_stores_empty(h, op) ==
    [h EXCEPT !.undo_stack = Evict(Append(h.undo_stack, op), h.capacity),
              !.redo_stack = <<>>]

\* History::push
push(h, op) ==
    IF is_empty(op)
    THEN h
    ELSE [h EXCEPT !.undo_stack = Evict(Append(h.undo_stack, op), h.capacity),
                   !.redo_stack = <<>>]

\* undo dropping the redo stack when there is nothing to undo.
undo_empty_drops_redo(h, c) ==
    IF h.undo_stack = <<>>
    THEN [history |-> [h EXCEPT !.redo_stack = <<>>], canvas |-> c,
          ret |-> FALSE]
    ELSE LET n == Len(h.undo_stack)
             op == h.undo_stack[n]
         IN [history |-> [h EXCEPT !.undo_stack = SubSeq(h.undo_stack, 1, n - 1),
                                   !.redo_stack = Append(h.redo_stack, op)],
             canvas |-> apply_before(op, c),
             ret |-> TRUE]

\* History::undo: pop_back, apply_before, push on the redo stack.
undo(h, c) ==
    IF h.undo_stack = <<>>
    THEN [history |-> h, canvas |-> c, ret |-> FALSE]
    ELSE LET n == Len(h.undo_stack)
             op == h.undo_stack[n]
         IN [history |-> [h EXCEPT !.undo_stack = SubSeq(h.undo_stack, 1, n - 1),
                                   !.redo_stack = Append(h.redo_stack, op)],
             canvas |-> apply_before(op, c),
             ret |-> TRUE]

\* redo popping the redo stack at the front: the operation undone first is
\* re-applied first.
redo_undone_first(h, c) ==
    IF h.redo_stack = <<>>
    THEN [history |-> h, canvas |-> c, ret |-> FALSE]
    ELSE LET op == Head(h.redo_stack)
         IN [history |-> [h EXCEPT !.redo_stack = Tail(h.redo_stack),
                                   !.undo_stack = Append(h.undo_stack, op)],
             canvas |-> apply_after(op, c),
             ret |-> TRUE]

\* History::redo
redo(h, c) ==
    IF h.redo_stack = <<>>
    THEN [history |-> h, canvas |-> c, ret |-> FALSE]
    ELSE LET n == Len(h.redo_stack)
             op == h.redo_stack[n]
         IN [history |-> [h EXCEPT !.redo_stack = SubSeq(h.redo_stack, 1, n - 1),
                                   !.undo_stack = Append(h.undo_stack, op)],
             canvas |-> apply_after(op, c),
             ret |-> TRUE]

\* History::clear
clear(h) == [h EXCEPT !.undo_stack = <<>>, !.redo_stack = <<>>]

\* ------------------------------------------------------------ brush stamp
\* Point::new
Point_new(x, y) == [x |-> x, y |-> y]

\* u8::saturating_sub
saturating_sub(a, b) == IF a >= b THEN a - b ELSE 0

\* brush_points: rows dy = -radius..radius, in each row dx = -radius..radius.
brush_points(center, size) ==
    LET radius == saturating_sub(size, 1)
        side == 2 * radius + 1
    IN [i \in 1..(side * side) |->
           Point_new(center.x + ((i - 1) % side) - radius,
                     center.y + ((i - 1) \div side) - radius)]

\* The cell a DrawSpec writes (apply_point_with_spec, apply_fill).
draw_cell(spec) ==
    IF spec.tool = "Eraser" THEN blank ELSE PaintCell_new(spec.ch, spec.color)

\* The loop of apply_point_with_spec over points[lo..hi]: builder.apply for
\* each point in order. s holds the builder and the canvas before points[lo].
\* The range is walked as its first half and then its second half, which is
\* the same order of calls; the second half starts from what the first half
\* left (s itself when the first half changed nothing).
RECURSIVE apply_points(_, _, _, _, _)
apply_points(s, points, lo, hi, cell) ==
    IF lo > hi THEN s
    ELSE IF lo = hi
    THEN LET r == apply(s.builder, s.canvas, points[lo].x, points[lo].y, cell)
         IN [builder |-> r.builder, canvas |-> r.canvas]
    ELSE LET mid == (lo + hi) \div 2
             r == apply_points(s, points, lo, mid, cell)
         IN IF r.builder = s.builder /\ r.canvas = s.canvas
            THEN apply_points(s, points, mid + 1, hi, cell)
            ELSE apply_points(r, points, mid + 1, hi, cell)

\* apply_point_with_spec
apply_point_with_spec(c, b, point, spec) ==
    LET points == brush_points(point, spec.size)
    IN apply_points([builder |-> b, canvas |-> c],
                    points, 1, Len(points), draw_cell(spec))

\* ------------------------------------------------------------ tools.rs
\* i32::abs
abs(n) == IF n < 0 THEN -n ELSE n

\* The loop of bresenham_line: push (x0, y0); break at the end point; else
\* step x when e2 >= dy and x0 # x1, step y when e2 <= dx and y0 # y1.
\* k holds the values fixed before the loop.
RECURSIVE line_loop(_, _, _, _, _)
line_loop(x0, y0, err, points, k) ==
    LET pushed == Append(points, Point_new(x0, y0))
    IN IF x0 = k.x1 /\ y0 = k.y1
       THEN pushed
       ELSE LET e2 == 2 * err
                step_x == e2 >= k.dy /\ x0 # k.x1
                err_x == IF step_x THEN err + k.dy ELSE err
                step_y == e2 <= k.dx /\ y0 # k.y1
            IN line_loop(IF step_x THEN x0 + k.sx ELSE x0,
                         IF step_y THEN y0 + k.sy ELSE y0,
                         IF step_y THEN err_x + k.dx ELSE err_x,
                         pushed, k)

\* bresenham_line walking from end to start.
bresenham_from_end(start, end) ==
    LET dx == abs(end.x - start.x)
        dy == -abs(end.y - start.y)
    IN line_loop(end.x, end.y, dx + dy, <<>>,
                 [x1 |-> start.x, y1 |-> start.y, dx |-> dx, dy |-> dy,
                  sx |-> IF end.x < start.x THEN 1 ELSE -1,
                  sy |-> IF end.y < start.y THEN 1 ELSE -1])

\* bresenham_line walking along the row of start to the column of end, then
\* along that column to end.
bresenham_corner(start, end) ==
    LET dx == abs(end.x - start.x)
        dy == -abs(end.y - start.y)
        sx == IF start.x < end.x THEN 1 ELSE -1
        sy == IF start.y < end.y THEN 1 ELSE -1
        row == line_loop(start.x, start.y, dx, <<>>,
                         [x1 |-> end.x, y1 |-> start.y, dx |-> dx, dy |-> 0,
                          sx |-> sx, sy |-> sy])
        column == line_loop(end.x, start.y, dy, <<>>,
                            [x1 |-> end.x, y1 |-> end.y, dx |-> 0, dy |-> dy,
                             sx |-> sx, sy |-> sy])
    IN row \o Tail(column)

\* bresenham_line
bresenham_line(start, end) ==
    LET dx == abs(end.x - start.x)
        dy == -abs(end.y - start.y)
    IN line_loop(start.x, start.y, dx + dy, <<>>,
                 [x1 |-> end.x, y1 |-> end.y, dx |-> dx, dy |-> dy,
                  sx |-> IF start.x < end.x THEN 1 ELSE -1,
                  sy |-> IF start.y < end.y THEN 1 ELSE -1])

\* bresenham_line before its loop: the loop variables x0, y0 and err, the
\* values fixed before the loop, and the empty result.
line_start(start, end) ==
    LET dx == abs(end.x - start.x)
        dy == -abs(end.y - start.y)
    IN [x0 |-> start.x, y0 |-> start.y, err |-> dx + dy, points |-> <<>>,
        done |-> FALSE,
        k |-> [x1 |-> end.x, y1 |-> end.y, dx |-> dx, dy |-> dy,
               sx |-> IF start.x < end.x THEN 1 ELSE -1,
               sy |-> IF start.y < end.y THEN 1 ELSE -1]]

\* One iteration adding dx, not dy, to err when x steps.
line_iter_err_dx(s) ==
    LET pushed == Append(s.points, Point_new(s.x0, s.y0))
        k == s.k
    IN IF s.x0 = k.x1 /\ s.y0 = k.y1
       THEN [s EXCEPT !.points = pushed, !.done = TRUE]
       ELSE LET e2 == 2 * s.err
                step_x == e2 >= k.dy /\ s.x0 # k.x1
                err_x == IF step_x THEN s.err + k.dx ELSE s.err
                step_y == e2 <= k.dx /\ s.y0 # k.y1
            IN [s EXCEPT !.points = pushed,
                         !.x0 = IF step_x THEN s.x0 + k.sx ELSE s.x0,
                         !.y0 = IF step_y THEN s.y0 + k.sy ELSE s.y0,
                         !.err = IF step_y THEN err_x + k.dx ELSE err_x]

\* One iteration of the loop of bresenham_line: push (x0, y0); break at the
\* end point; else the two guarded steps, each a no-op when its coordinate
\* has arrived.
line_iter(s) ==
    LET pushed == Append(s.points, Point_new(s.x0, s.y0))
        k == s.k
    IN IF s.x0 = k.x1 /\ s.y0 = k.y1
       THEN [s EXCEPT !.points = pushed, !.done = TRUE]
       ELSE LET e2 == 2 * s.err
                step_x == e2 >= k.dy /\ s.x0 # k.x1
                err_x == IF step_x THEN s.err + k.dy ELSE s.err
                step_y == e2 <= k.dx /\ s.y0 # k.y1
            IN [s EXCEPT !.points = pushed,
                         !.x0 = IF step_x THEN s.x0 + k.sx ELSE s.x0,
                         !.y0 = IF step_y THEN s.y0 + k.sy ELSE s.y0,
                         !.err = IF step_y THEN err_x + k.dx ELSE err_x]

\* The loop of dedup_points over points[lo..hi]: a point goes to out when
\* seen.insert takes it. s holds seen and out before points[lo]. The range is
\* walked as its first half and then its second half, in the same order; the
\* second half starts from what the first half left.
RECURSIVE dedup_range(_, _, _, _)
dedup_range(s, points, lo, hi) ==
    IF lo > hi THEN s
    ELSE IF lo = hi
    THEN LET key == <<points[lo].x, points[lo].y>>
         IN IF key \in s.seen
            THEN s
            ELSE [seen |-> s.seen \cup {key},
                  out |-> Append(s.out, points[lo])]
    ELSE LET mid == (lo + hi) \div 2
             r == dedup_range(s, points, lo, mid)
         IN IF r.out = s.out
            THEN dedup_range(s, points, mid + 1, hi)
            ELSE dedup_range(r, points, mid + 1, hi)

\* dedup_points keeping every occurrence.
dedup_keeps_all(points) == points

\* dedup_points
dedup_points(points) ==
    dedup_range([seen |-> {}, out |-> <<>>], points, 1, Len(points)).out

\* rectangle_points with the filled box walked column by column.
rectangle_column_major(start, end, filled) ==
    LET min_x == Min(start.x, end.x)
        max_x == Max(start.x, end.x)
        min_y == Min(start.y, end.y)
        max_y == Max(start.y, end.y)
        w == max_x - min_x + 1
        h == max_y - min_y + 1
    IN IF filled
       THEN [i \in 1..(w * h) |->
                Point_new(min_x + ((i - 1) \div h), min_y + ((i - 1) % h))]
       ELSE dedup_points(
                [i \in 1..(2 * w) |->
                    Point_new(min_x + ((i - 1) \div 2),
                              IF i % 2 = 1 THEN min_y ELSE max_y)]
                \o [i \in 1..(2 * h) |->
                    Point_new(IF i % 2 = 1 THEN min_x ELSE max_x,
                              min_y + ((i - 1) \div 2))])

\* rectangle_points: filled, the rows y = min_y..max_y with x = min_x..max_x
\* in each; else the pairs (x, min_y), (x, max_y) for each x, then the pairs
\* (min_x, y), (max_x, y) for each y, through dedup_points.
rectangle_points(start, end, filled) ==
    LET min_x == Min(start.x, end.x)
        max_x == Max(start.x, end.x)
        min_y == Min(start.y, end.y)
        max_y == Max(start.y, end.y)
        w == max_x - min_x + 1
        h == max_y - min_y + 1
    IN IF filled
       THEN [i \in 1..(w * h) |->
                Point_new(min_x + ((i - 1) % w), min_y + ((i - 1) \div w))]
       ELSE dedup_points(
                [i \in 1..(2 * w) |->
                    Point_new(min_x + ((i - 1) \div 2),
                              IF i % 2 = 1 THEN min_y ELSE max_y)]
                \o [i \in 1..(2 * h) |->
                    Point_new(IF i % 2 = 1 THEN min_x ELSE max_x,
                              min_y + ((i - 1) \div 2))])

\* plot_ellipse_points without the point mirrored in both axes.
plot_three_quadrants(points, cx, cy, x, y) ==
    points \o <<Point_new(cx + x, cy + y), Point_new(cx - x, cy + y),
                Point_new(cx + x, cy - y)>>

\* plot_ellipse_points
plot_ellipse_points(points, cx, cy, x, y) ==
    points \o <<Point_new(cx + x, cy + y), Point_new(cx - x, cy + y),
                Point_new(cx + x, cy - y), Point_new(cx - x, cy - y)>>

\* The first loop of ellipse_points: while px < py. k holds the values fixed
\* before the loop.
RECURSIVE ellipse_loop1(_, _, _, _, _, _, _)
ellipse_loop1(x, y, px, py, p, points, k) ==
    IF ~(px < py)
    THEN [x |-> x, y |-> y, px |-> px, py |-> py, points |-> points]
    ELSE LET plotted == plot_ellipse_points(points, k.cx, k.cy, x, y)
             px1 == px + k.two_ry2
             py1 == py - k.two_rx2
         IN IF p < 0
            THEN ellipse_loop1(x + 1, y, px1, py, p + k.ry2 + px1, plotted, k)
            ELSE ellipse_loop1(x + 1, y - 1, px1, py1,
                               p + k.ry2 + px1 - py1, plotted, k)

\* The second loop of ellipse_points: while y >= 0.
RECURSIVE ellipse_loop2(_, _, _, _, _, _, _)
ellipse_loop2(x, y, px, py, p2, points, k) ==
    IF ~(y >= 0)
    THEN points
    ELSE LET plotted == plot_ellipse_points(points, k.cx, k.cy, x, y)
             px1 == px + k.two_ry2
             py1 == py - k.two_rx2
         IN IF p2 > 0
            THEN ellipse_loop2(x, y - 1, px, py1, p2 + k.rx2 - py1, plotted, k)
            ELSE ellipse_loop2(x + 1, y - 1, px1, py1,
                               p2 + k.rx2 - py1 + px1, plotted, k)

\* The outline of ellipse_points for rx >= 1 and ry >= 1: both loops, then
\* dedup_points.
ellipse_outline(rx, ry, cx, cy) ==
    LET rx2 == rx * rx
        ry2 == ry * ry
        k == [cx |-> cx, cy |-> cy, rx2 |-> rx2, ry2 |-> ry2,
              two_rx2 |-> 2 * rx2, two_ry2 |-> 2 * ry2]
        a == ellipse_loop1(0, ry, 0, 2 * rx2 * ry,
                           ry2 - (rx2 * ry) + (rx2 \div 4), <<>>, k)
        p2 == ry2 * (a.x * a.x + a.x) + (ry2 \div 4)
              + rx2 * (a.y - 1) * (a.y - 1) - rx2 * ry2
    IN dedup_points(ellipse_loop2(a.x, a.y, a.px, a.py, p2, a.points, k))

\* ellipse_points for rx >= 1 and ry >= 1 before its first loop: the loop
\* variables, the values fixed before the loops, and the empty vector.
ellipse_start(rx, ry, cx, cy) ==
    LET rx2 == rx * rx
        ry2 == ry * ry
    IN [pc |-> "loop1", x |-> 0, y |-> ry, px |-> 0, py |-> 2 * rx2 * ry,
        p |-> ry2 - (rx2 * ry) + (rx2 \div 4), points |-> <<>>,
        k |-> [cx |-> cx, cy |-> cy, rx2 |-> rx2, ry2 |-> ry2,
               two_rx2 |-> 2 * rx2, two_ry2 |-> 2 * ry2]]

\* One turn of ellipse_points: an iteration of the first loop (while px < py)
\* or, its test failing, the assignment of p2; then an iteration of the
\* second loop (while y >= 0) or, its test failing, the way to the return.
\* p holds p, then p2.
ellipse_iter(s) ==
    LET k == s.k
        plotted == plot_ellipse_points(s.points, k.cx, k.cy, s.x, s.y)
        px1 == s.px + k.two_ry2
        py1 == s.py - k.two_rx2
    IN IF s.pc = "loop1"
       THEN IF s.px < s.py
            THEN IF s.p < 0
                 THEN [s EXCEPT !.points = plotted, !.x = s.x + 1,
                                !.px = px1, !.p = s.p + k.ry2 + px1]
                 ELSE [s EXCEPT !.points = plotted, !.x = s.x + 1,
                                !.y = s.y - 1, !.px = px1, !.py = py1,
                                !.p = s.p + k.ry2 + px1 - py1]
            ELSE [s EXCEPT !.pc = "loop2",
                           !.p = k.ry2 * (s.x * s.x + s.x) + (k.ry2 \div 4)
                                 + k.rx2 * (s.y - 1) * (s.y - 1)
                                 - k.rx2 * k.ry2]
       ELSE IF s.y >= 0
            THEN IF s.p > 0
                 THEN [s EXCEPT !.points = plotted, !.y = s.y - 1,
                                !.py = py1, !.p = s.p + k.rx2 - py1]
                 ELSE [s EXCEPT !.points = plotted, !.x = s.x + 1,
                                !.y = s.y - 1, !.px = px1, !.py = py1,
                                !.p = s.p + k.rx2 - py1 + px1]
            ELSE [s EXCEPT !.pc = "return"]

\* ellipse_points with the one-radius-zero segments running between the
\* centre and the far side only.
ellipse_half_segment(start, end) ==
    LET min_x == Min(start.x, end.x)
        max_x == Max(start.x, end.x)
        min_y == Min(start.y, end.y)
        max_y == Max(start.y, end.y)
        rx == abs((max_x - min_x) \div 2)
        ry == abs((max_y - min_y) \div 2)
        cx == min_x + rx
        cy == min_y + ry
    IN IF rx = 0 /\ ry = 0 THEN <<Point_new(cx, cy)>>
       ELSE IF rx = 0
       THEN [i \in 1..(max_y - cy + 1) |-> Point_new(cx, cy + i - 1)]
       ELSE IF ry = 0
       THEN [i \in 1..(max_x - cx + 1) |-> Point_new(cx + i - 1, cy)]
       ELSE ellipse_outline(rx, ry, cx, cy)

\* ellipse_points
ellipse_points(start, end) ==
    LET min_x == Min(start.x, end.x)
        max_x == Max(start.x, end.x)
        min_y == Min(start.y, end.y)
        max_y == Max(start.y, end.y)
        rx == abs((max_x - min_x) \div 2)
        ry == abs((max_y - min_y) \div 2)
        cx == min_x + rx
        cy == min_y + ry
    IN IF rx = 0 /\ ry = 0 THEN <<Point_new(cx, cy)>>
       ELSE IF rx = 0
       THEN [i \in 1..(max_y - min_y + 1) |-> Point_new(cx, min_y + i - 1)]
       ELSE IF ry = 0
       THEN [i \in 1..(max_x - min_x + 1) |-> Point_new(min_x + i - 1, cy)]
       ELSE ellipse_outline(rx, ry, cx, cy)

\* The loop turn stepping to one diagonal neighbour as well.
flood_turn_diagonal(c, target, s) ==
    IF s.queue = <<>> THEN s
    ELSE LET p == Head(s.queue)
             rest == Tail(s.queue)
             idx == p.y * c.width + p.x
         IN IF ~in_bounds_i32(c, p.x, p.y)
            THEN [s EXCEPT !.queue = rest]
            ELSE IF idx \in s.visited
            THEN [s EXCEPT !.queue = rest]
            ELSE IF get(c, p.x % U16, p.y % U16) # target
            THEN [s EXCEPT !.queue = rest, !.visited = @ \cup {idx}]
            ELSE [queue |-> rest \o <<Point_new(p.x + 1, p.y),
                                      Point_new(p.x - 1, p.y),
                                      Point_new(p.x, p.y + 1),
                                      Point_new(p.x, p.y - 1),
                                      Point_new(p.x + 1, p.y + 1)>>,
                  visited |-> s.visited \cup {idx},
                  out |-> Append(s.out, Point_new(p.x, p.y))]

\* One turn of the while-let loop of flood_fill_points on the loop state s
\* (queue, visited, out); with the queue empty the loop has ended and s stays.
flood_turn(c, target, s) ==
    IF s.queue = <<>> THEN s
    ELSE LET p == Head(s.queue)
             rest == Tail(s.queue)
             idx == p.y * c.width + p.x
         IN IF ~in_bounds_i32(c, p.x, p.y)
            THEN [s EXCEPT !.queue = rest]
            ELSE IF idx \in s.visited
            THEN [s EXCEPT !.queue = rest]
            ELSE IF get(c, p.x % U16, p.y % U16) # target
            THEN [s EXCEPT !.queue = rest, !.visited = @ \cup {idx}]
            ELSE [queue |-> rest \o <<Point_new(p.x + 1, p.y),
                                      Point_new(p.x - 1, p.y),
                                      Point_new(p.x, p.y + 1),
                                      Point_new(p.x, p.y - 1)>>,
                  visited |-> s.visited \cup {idx},
                  out |-> Append(s.out, Point_new(p.x, p.y))]

\* The while-let loop of flood_fill_points run for at most n turns from s. n
\* turns are walked as their first half and then their second half; when the
\* first half left s as it was, the queue is empty and the loop has ended.
RECURSIVE flood_loop(_, _, _, _)
flood_loop(c, target, s, n) ==
    IF n <= 0 THEN s
    ELSE IF n = 1 THEN flood_turn(c, target, s)
    ELSE LET r == flood_loop(c, target, s, n \div 2)
         IN IF r = s THEN s
            ELSE flood_loop(c, target, r, n - (n \div 2))

\* The turns the loop can take on c: the start point, and four pushes for
\* each cell that enters out, which visited lets happen once per cell.
flood_turns(c) == 1 + 4 * c.width * c.height

\* The loop state when the loop of flood_fill_points ends.
flood_run(c, start, target) ==
    flood_loop(c, target,
               [queue |-> <<start>>, visited |-> {}, out |-> <<>>],
               flood_turns(c))

\* flood_fill_points without the early return.
flood_fill_no_guard(c, start, target, replacement) ==
    flood_run(c, start, target).out

\* flood_fill_points
flood_fill_points(c, start, target, replacement) ==
    IF target = replacement \/ ~in_bounds_i32(c, start.x, start.y)
    THEN <<>>
    ELSE flood_run(c, start, target).out

\* App::apply_fill: the builder and the canvas after the call.
apply_fill(c, b, point, spec) ==
    LET target == get_i32(c, point.x, point.y)
        replacement == draw_cell(spec)
    IN IF target = None
       THEN [builder |-> b, canvas |-> c]
       ELSE LET points == flood_fill_points(c, point,
                              CHOOSE t \in target : TRUE, replacement)
            IN apply_points([builder |-> b, canvas |-> c],
                            points, 1, Len(points), replacement)

\* App::commit_builder
commit_builder(h, b) ==
    LET operation == into_operation(b)
    IN IF ~is_empty(operation) THEN push(h, operation) ELSE h

\* begin_left_draw with the Fill tool: apply_fill on a new builder, then
\* commit_builder; op is the operation the builder finalized to.
fill_click(c, h, point, spec) ==
    LET r == apply_fill(c, OperationBuilder_new, point, spec)
    IN [canvas |-> r.canvas,
        history |-> commit_builder(h, r.builder),
        op |-> into_operation(r.builder)]

\* The '[' key without the floor of 1.
size_decrease_no_floor(size) == saturating_sub(size, 1)

\* handle_key, '[': brush_size.saturating_sub(1).max(1)
size_decrease(size) == Max(saturating_sub(size, 1), MinBrush)

\* handle_key, ']': (brush_size + 1).min(3)
size_increase(size) == Min(size + 1, MaxBrush)

\* ------------------------------------------------------------------ io.rs
\* The line feed save_ascii writes between rows.
LF == "\n"

\* The row y of save_ascii's output: canvas.get(x, y).ch for x in 0..width.
ascii_row(c, y) == [i \in 1..c.width |-> get(c, i - 1, y).ch]

\* The rows 0..y of save_ascii's output, a line feed after every row but the
\* last of the canvas.
RECURSIVE ascii_rows(_, _)
ascii_rows(c, y) ==
    LET row == ascii_row(c, y) \o (IF y + 1 < c.height THEN <<LF>> ELSE <<>>)
    IN IF y = 0 THEN row ELSE ascii_rows(c, y - 1) \o row

\* save_ascii: the characters written to the file.
save_ascii(c) == ascii_rows(c, c.height - 1)

\* save_json: the width, the height and the cells, as serde's derived
\* Serialize writes them.
save_json(c) == [width |-> c.width, height |-> c.height, cells |-> c.cells]

\* The position of the first line feed of text, 0 when it has none.
first_lf(text) ==
    IF \E i \in DOMAIN text : text[i] = LF
    THEN CHOOSE i \in DOMAIN text :
             text[i] = LF /\ \A j \in 1..(i - 1) : text[j] # LF
    ELSE 0

\* str::lines: the text split at its line feeds; a line feed that ends the
\* text opens no further line.
RECURSIVE lines(_)
lines(text) ==
    IF text = <<>> THEN <<>>
    ELSE LET k == first_lf(text)
         IN IF k = 0 THEN <<text>>
            ELSE <<SubSeq(text, 1, k - 1)>>
                     \o lines(SubSeq(text, k + 1, Len(text)))

\* The longest line of ls, 0 when there is none.
RECURSIVE max_len(_)
max_len(ls) ==
    IF ls = <<>> THEN 0 ELSE Max(Len(Head(ls)), max_len(Tail(ls)))

\* load_ascii, after the file was read: Canvas::new(width, height), then
\* set(x, y, {ch, Default, None}) for every character of every line.
load_ascii(text) ==
    LET ls == IF text = <<>> THEN <<<<>>>> ELSE lines(text)
        height == Max(Len(ls), 1)
        width == Max(max_len(ls), 1)
    IN [width |-> width, height |-> height,
        cells |-> [i \in 1..(width * height) |->
            LET x == (i - 1) % width
                y == (i - 1) \div width
            IN IF x < Len(ls[y + 1])
               THEN [ch |-> ls[y + 1][x + 1], fg |-> "Default", bg |-> "None"]
               ELSE blank]]

\* What a path names on disk: nothing readable, a text, or a JSON document,
\* which either deserializes to a Canvas value or does not.
Missing == [kind |-> "missing"]
Malformed == [kind |-> "malformed"]
TextFile(t) == [kind |-> "text", text |-> t]
JsonFile(v) == [kind |-> "json", value |-> v]

\* Result<Canvas>
Ok(c) == [ok |-> TRUE, canvas |-> c]
Err(msg) == [ok |-> FALSE, err |-> msg]

\* load_json: read_to_string, then serde_json::from_str::<Canvas>; the derived
\* Deserialize takes width, height and cells as the document gives them.
load_json(file) ==
    IF file.kind = "missing" THEN Err("failed to read JSON file")
    ELSE IF file.kind = "json" THEN Ok(file.value)
    ELSE Err("failed to parse JSON file")

\* load_ascii, with the read of the file.
load_ascii_file(file) ==
    IF file.kind = "text" THEN Ok(load_ascii(file.text))
    ELSE Err("failed to read ASCII file")

\* extension_lower(path) = Some("json"). Of the paths the explored prompt
\* keys type, canvas.json alone has that extension.
is_json(path) == path = "canvas.json"

\* load_canvas, on what the path names.
load_canvas(path, file) ==
    IF is_json(path) THEN load_json(file) ELSE load_ascii_file(file)

\* save_canvas: what is written when the write succeeds.
save_canvas(path, c) ==
    IF is_json(path) THEN save_json(c) ELSE save_ascii(c)

\* parse_path; the explored inputs carry no white space to trim.
parse_path(input, fallback) == IF input = "" THEN fallback ELSE input

\* ---------------------------------------------------------- main.rs, prompt
\* The default name of open_save_prompt and open_load_prompt.
default_name(file) ==
    IF file = None THEN "canvas.json" ELSE CHOOSE p \in file : TRUE

\* open_save_prompt
open_save_prompt(file) == [kind |-> "Save", input |-> default_name(file)]

\* open_load_prompt
open_load_prompt(file) == [kind |-> "Load", input |-> default_name(file)]

\* loaded.resize_preserve(width, height) indexes self.cells out of range: the
\* sizes differ and a cell of the copied region lies past the end of cells.
resize_panics(c, w, h) ==
    LET new_width == Max(w, 1)
        new_height == Max(h, 1)
    IN /\ ~(c.width = new_width /\ c.height = new_height)
       /\ \E x \in 0..(Min(c.width, new_width) - 1),
             y \in 0..(Min(c.height, new_height) - 1) :
              index(c, x, y) + 1 > Len(c.cells)

\* commit_prompt on a load that clears the history whatever load_canvas
\* returned.
commit_load_clears_first(c, h, file, path, result) ==
    IF ~result.ok
    THEN [canvas |-> c, history |-> clear(h), current_file |-> file,
          status |-> "Load failed: " \o result.err, panic |-> FALSE]
    ELSE IF resize_panics(result.canvas, c.width, c.height)
    THEN [panic |-> TRUE]
    ELSE [canvas |-> resize_preserve(result.canvas, c.width, c.height),
          history |-> clear(h), current_file |-> Some(path),
          status |-> "Loaded " \o path, panic |-> FALSE]

\* commit_prompt, PromptState::Load: the fields it leaves, and whether
\* resize_preserve panicked before any of them was assigned.
commit_load(c, h, file, path, result) ==
    IF ~result.ok
    THEN [canvas |-> c, history |-> h, current_file |-> file,
          status |-> "Load failed: " \o result.err, panic |-> FALSE]
    ELSE IF resize_panics(result.canvas, c.width, c.height)
    THEN [panic |-> TRUE]
    ELSE [canvas |-> resize_preserve(result.canvas, c.width, c.height),
          history |-> clear(h), current_file |-> Some(path),
          status |-> "Loaded " \o path, panic |-> FALSE]

\* commit_prompt, PromptState::Save: the fields it leaves.
commit_save(file, path, wrote) ==
    IF wrote
    THEN [current_file |-> Some(path), status |-> "Saved " \o path]
    ELSE [current_file |-> file, status |-> "Save failed: failed to write"]

\* --------------------------------------------------------- main.rs, mouse
\* main.rs, UNDO_LIMIT
UNDO_LIMIT == 100

\* shape_points
shape_points(t, start, end, filled) ==
    IF t = "Line" THEN bresenham_line(start, end)
    ELSE IF t = "Rectangle" THEN rectangle_points(start, end, filled)
    ELSE IF t = "Circle" THEN ellipse_points(start, end)
    ELSE <<>>

\* The loops of drag_left_draw and finish_left_draw over points[lo..hi]:
\* apply_point_with_spec for each point in order, walked as the first half of
\* the range and then the second.
RECURSIVE stamp_points(_, _, _, _, _)
stamp_points(s, points, lo, hi, spec) ==
    IF lo > hi THEN s
    ELSE IF lo = hi
    THEN apply_point_with_spec(s.canvas, s.builder, points[lo], spec)
    ELSE LET mid == (lo + hi) \div 2
             r == stamp_points(s, points, lo, mid, spec)
         IN IF r.builder = s.builder /\ r.canvas = s.canvas
            THEN stamp_points(s, points, mid + 1, hi, spec)
            ELSE stamp_points(r, points, mid + 1, hi, spec)

\* MouseMode::FreeDrag and MouseMode::ShapeDrag
FreeDrag(last_point, spec, b) ==
    [kind |-> "FreeDrag", last |-> last_point, spec |-> spec, builder |-> b]
ShapeDrag(start, current, spec, t, filled) ==
    [kind |-> "ShapeDrag", start |-> start, current |-> current,
     spec |-> spec, tool |-> t, filled |-> filled]

\* begin_left_draw finalizing the builder of the freehand drag in progress
\* before it starts the new gesture.
begin_commits_builder(c, h, mode, spec, filled, point) ==
    LET h1 == IF mode.kind = "FreeDrag" THEN commit_builder(h, mode.builder)
              ELSE h
    IN IF spec.tool \in {"Pencil", "Eraser"}
       THEN LET r == apply_point_with_spec(c, OperationBuilder_new, point, spec)
            IN [canvas |-> r.canvas, history |-> h1,
                mouse_mode |-> FreeDrag(point, spec, r.builder)]
       ELSE IF spec.tool \in {"Line", "Rectangle", "Circle"}
       THEN [canvas |-> c, history |-> h1,
             mouse_mode |-> ShapeDrag(point, point, spec, spec.tool, filled)]
       ELSE LET r == fill_click(c, h, point, spec)
            IN [canvas |-> r.canvas, history |-> r.history, mouse_mode |-> mode]

\* begin_left_draw: the canvas, the history and the mouse mode it leaves.
begin_left_draw(c, h, mode, spec, filled, point) ==
    IF spec.tool \in {"Pencil", "Eraser"}
    THEN LET r == apply_point_with_spec(c, OperationBuilder_new, point, spec)
         IN [canvas |-> r.canvas, history |-> h,
             mouse_mode |-> FreeDrag(point, spec, r.builder)]
    ELSE IF spec.tool \in {"Line", "Rectangle", "Circle"}
    THEN [canvas |-> c, history |-> h,
          mouse_mode |-> ShapeDrag(point, point, spec, spec.tool, filled)]
    ELSE LET r == fill_click(c, h, point, spec)
         IN [canvas |-> r.canvas, history |-> r.history, mouse_mode |-> mode]

\* drag_left_draw stamping the shape from start to the dragged position on the
\* canvas at every Drag event of a shape gesture.
drag_paints_preview(c, mode, point) ==
    IF mode.kind = "FreeDrag"
    THEN LET pts == bresenham_line(mode.last, point)
             r == stamp_points([builder |-> mode.builder, canvas |-> c],
                               pts, 1, Len(pts), mode.spec)
         IN [canvas |-> r.canvas,
             mouse_mode |-> FreeDrag(point, mode.spec, r.builder)]
    ELSE IF mode.kind = "ShapeDrag"
    THEN LET pts == shape_points(mode.tool, mode.start, point, mode.filled)
             r == stamp_points([builder |-> OperationBuilder_new,
                                canvas |-> c],
                               pts, 1, Len(pts), mode.spec)
         IN [canvas |-> r.canvas,
             mouse_mode |-> [mode EXCEPT !.current = point]]
    ELSE [canvas |-> c, mouse_mode |-> mode]

\* drag_left_draw: the canvas and the mouse mode it leaves.
drag_left_draw(c, mode, point) ==
    IF mode.kind = "FreeDrag"
    THEN LET pts == bresenham_line(mode.last, point)
             r == stamp_points([builder |-> mode.builder, canvas |-> c],
                               pts, 1, Len(pts), mode.spec)
         IN [canvas |-> r.canvas,
             mouse_mode |-> FreeDrag(point, mode.spec, r.builder)]
    ELSE IF mode.kind = "ShapeDrag"
    THEN [canvas |-> c, mouse_mode |-> [mode EXCEPT !.current = point]]
    ELSE [canvas |-> c, mouse_mode |-> mode]

\* finish_left_draw: the canvas and the history it leaves, and the operation
\* its builder finalized to; the mouse mode it leaves is Idle.
finish_left_draw(c, h, mode, maybe_end) ==
    IF mode.kind = "FreeDrag"
    THEN [canvas |-> c, history |-> commit_builder(h, mode.builder),
          op |-> into_operation(mode.builder)]
    ELSE IF mode.kind = "ShapeDrag"
    THEN LET end == IF maybe_end = None THEN mode.current
                    ELSE CHOOSE q \in maybe_end : TRUE
             base_points == shape_points(mode.tool, mode.start, end,
                                         mode.filled)
             r == stamp_points([builder |-> OperationBuilder_new,
                                canvas |-> c],
                               base_points, 1, Len(base_points), mode.spec)
         IN [canvas |-> r.canvas, history |-> commit_builder(h, r.builder),
             op |-> into_operation(r.builder)]
    ELSE [canvas |-> c, history |-> h, op |-> <<>>]

\* ------------------------------------------------------------------ state
VARIABLES
    canvas,     \* the Canvas
    builder,    \* the OperationBuilder of the gesture in progress
    history,    \* the History
    ret,        \* what the last undo/redo returned
    last,       \* the branch the last call took
    budget,     \* calls left in the explored run
    g0,         \* the canvas when the current builder was created
    pure,       \* the canvas changed only through this builder since then
    applied,    \* the current builder received at least one apply
    onlyNoop,   \* every apply on the current builder wrote the value already there
    gest,       \* the last finished gesture: the canvas before and after it, the
                \* history after its push, the stack sizes before its push
    phase,      \* the calls made since the last push, while they are the
                \* sequence push, undo, redo or push, redo; "drag" while a
                \* freehand gesture has seen only its own mouse events and
                \* undo and redo keys since its press
    brush_size, \* App::brush_size
    call,       \* the last call of a tools.rs function: its name and arguments
    points,     \* the points that call returned
    tool,       \* App::tool
    brush_char, \* App::brush_char
    color,      \* App::color
    filled_shapes, \* App::filled_shapes
    mouse_mode, \* App::mouse_mode
    prompt,     \* App::prompt
    current_file, \* App::current_file
    status,     \* App::status
    crashed,    \* the process panicked
    written,    \* what the last successful save wrote
    loaded,     \* the canvas the last load_canvas call returned
    stale,      \* "builder": the builder of the drag in progress holds
                \* changes captured before the last successful load;
                \* "pushed": the last release pushed its operation, and no
                \* press or load has happened since
    run,        \* the undo keys in a row and the redo keys right after them:
                \* the canvas and the history before the first of them
    trail,      \* the non-empty pushes made with no undo key in between and
                \* the undo keys that followed them
    sync        \* "yes": every change of the canvas since the stacks were
                \* last empty is an operation on them; "pending": but for
                \* the freehand drag in progress; "no" otherwise

\* The fields of App besides canvas, history and brush_size, and what is
\* recorded about its handlers.
appvars == <<tool, brush_char, color, filled_shapes, mouse_mode, prompt,
             current_file, status, crashed, written, loaded, stale, run,
             trail, sync>>

vars == <<canvas, builder, history, ret, last, budget, g0, pure, applied,
          onlyNoop, gest, phase, brush_size, call, points, tool, brush_char,
          color, filled_shapes, mouse_mode, prompt, current_file, status,
          crashed, written, loaded, stale, run, trail, sync>>

\* i32 coordinates handed to apply and to the stamp: one step off-grid each way.
Coord == -1..MaxDim
\* u16 coordinates and sizes handed to set, Canvas::new and resize_preserve.
UCoord == 0..MaxDim

\* The draw specs of the explored stamps.
DrawSpecs ==
    {[tool |-> t, ch |-> "#", color |-> "White", size |-> s] :
        t \in {"Pencil", "Eraser"}, s \in MinBrush..MaxBrush}

\* No gesture has been finished yet.
NoGesture == [pre |-> Canvas_new(1, 1), post |-> Canvas_new(1, 1),
              hist |-> History_new(0), nonempty |-> FALSE, pure |-> FALSE,
              applied |-> FALSE, undone |-> 0, redone |-> 0]

\* No tools.rs function has been called yet.
NoCall == [fn |-> "none", start |-> Point_new(0, 0), end |-> Point_new(0, 0),
           filled |-> FALSE, size |-> 1,
           target |-> blank, replacement |-> blank]

\* MouseMode::Idle
Idle == [kind |-> "Idle"]

\* PromptState::None
PromptNone == [kind |-> "None"]

\* No undo key has been pressed since the last other event.
NoRun == [canvas |-> Canvas_new(1, 1), history |-> History_new(0),
          undos |-> 0, redos |-> 0, idle |-> FALSE, ok |-> FALSE,
          sync |-> FALSE]

\* No operation has been pushed since the last undo key.
NoTrail == [pushes |-> <<>>, undos |-> 0, oks |-> 0]

\* The fields and the bookkeeping at the start of a run of n calls on the
\* canvas and the history already chosen.
Fresh(n) ==
    /\ builder = OperationBuilder_new
    /\ brush_size = 1
    /\ call = NoCall
    /\ points = <<>>
    /\ ret = FALSE
    /\ last = "new"
    /\ budget = n
    /\ g0 = canvas
    /\ pure = TRUE
    /\ applied = FALSE
    /\ onlyNoop = TRUE
    /\ gest = NoGesture
    /\ phase = "other"
    /\ tool = "Pencil"
    /\ brush_char = "#"
    /\ color = "White"
    /\ filled_shapes = FALSE
    /\ mouse_mode = Idle
    /\ prompt = PromptNone
    /\ current_file = None
    /\ status = "Ready"
    /\ crashed = FALSE
    /\ written = None
    /\ loaded = None
    /\ stale = "no"
    /\ run = NoRun
    /\ trail = NoTrail
    /\ sync = "yes"

\* The state after Canvas::new(w, h), History::new(capacity) and
\* OperationBuilder::new, with n calls to explore.
Start(n) ==
    /\ \E w \in UCoord, h \in UCoord : canvas = Canvas_new(w, h)
    /\ \E capacity \in 0..MaxCap : history = History_new(capacity)
    /\ Fresh(n)

Init == Start(MaxSteps)

\* One call is made; tag names the branch it took.
Tick(tag) ==
    /\ budget > 0
    /\ budget' = budget - 1
    /\ last' = tag
    /\ UNCHANGED <<brush_size, call, points>>
    /\ UNCHANGED appvars

\* canvas.set(x, y, cell), called directly.
SetStep ==
    \E x \in UCoord, y \in UCoord, cell \in CellValues :
        /\ Tick(IF x >= canvas.width \/ y >= canvas.height
                THEN "set_oob" ELSE "set")
        /\ canvas' = set(canvas, x, y, cell)
        /\ pure' = (pure /\ canvas' = canvas)
        /\ phase' = "other"
        /\ UNCHANGED <<builder, history, ret, g0, applied, onlyNoop, gest>>

\* canvas.resize_preserve(w, h)
ResizeStep ==
    \E w \in UCoord, h \in UCoord :
        /\ Tick("resize")
        /\ canvas' = resize_preserve(canvas, w, h)
        /\ pure' = (pure /\ canvas' = canvas)
        /\ phase' = "other"
        /\ UNCHANGED <<builder, history, ret, g0, applied, onlyNoop, gest>>

\* builder.apply(&mut canvas, x, y, new_cell)
ApplyStep ==
    \E x \in Coord, y \in Coord, new_cell \in CellValues :
        LET r == apply(builder, canvas, x, y, new_cell)
        IN /\ Tick(r.branch)
           /\ builder' = r.builder
           /\ canvas' = r.canvas
           /\ applied' = TRUE
           /\ onlyNoop' = (onlyNoop /\ r.branch = "apply_noop")
           /\ phase' = "other"
           /\ UNCHANGED <<history, ret, g0, pure, gest>>

\* apply_point_with_spec(&mut canvas, &mut builder, point, spec)
StampStep ==
    \E x \in Coord, y \in Coord, spec \in DrawSpecs :
        LET r == apply_point_with_spec(canvas, builder, Point_new(x, y), spec)
            pts == brush_points(Point_new(x, y), spec.size)
        IN /\ Tick("stamp")
           /\ builder' = r.builder
           /\ canvas' = r.canvas
           /\ applied' = TRUE
           /\ onlyNoop' = (onlyNoop /\ \A i \in DOMAIN pts :
                   /\ in_bounds_i32(canvas, pts[i].x, pts[i].y)
                   /\ get(canvas, pts[i].x, pts[i].y) = draw_cell(spec))
           /\ phase' = "other"
           /\ UNCHANGED <<history, ret, g0, pure, gest>>

\* The gesture ends: history.push(builder.into_operation()); the next gesture
\* starts from OperationBuilder::new.
PushStep ==
    LET op == into_operation(builder)
    IN /\ Tick(IF is_empty(op) THEN "push_empty" ELSE "push")
       /\ history' = push(history, op)
       /\ builder' = OperationBuilder_new
       /\ g0' = canvas
       /\ pure' = TRUE
       /\ applied' = FALSE
       /\ onlyNoop' = TRUE
       /\ gest' = [pre |-> g0, post |-> canvas, hist |-> history',
                   nonempty |-> ~is_empty(op), pure |-> pure,
                   applied |-> applied,
                   undone |-> Len(history.undo_stack),
                   redone |-> Len(history.redo_stack)]
       /\ phase' = "pushed"
       /\ UNCHANGED <<canvas, ret>>

\* The gesture is abandoned: its builder is dropped, not finalized.
DropStep ==
    /\ Tick("drop")
    /\ builder' = OperationBuilder_new
    /\ g0' = canvas
    /\ pure' = TRUE
    /\ applied' = FALSE
    /\ onlyNoop' = TRUE
    /\ phase' = "other"
    /\ UNCHANGED <<canvas, history, ret, gest>>

\* history.undo(&mut canvas)
UndoStep ==
    LET r == undo(history, canvas)
    IN /\ Tick(IF r.ret THEN "undo" ELSE "undo_empty")
       /\ history' = r.history
       /\ canvas' = r.canvas
       /\ ret' = r.ret
       /\ pure' = (pure /\ canvas' = canvas)
       /\ phase' = (IF phase = "pushed" THEN "undone" ELSE "other")
       /\ UNCHANGED <<builder, g0, applied, onlyNoop, gest>>

\* history.redo(&mut canvas)
RedoStep ==
    LET r == redo(history, canvas)
    IN /\ Tick(IF r.ret THEN "redo" ELSE "redo_empty")
       /\ history' = r.history
       /\ canvas' = r.canvas
       /\ ret' = r.ret
       /\ pure' = (pure /\ canvas' = canvas)
       /\ phase' = (IF phase = "undone" THEN "redone"
                    ELSE IF phase = "pushed" THEN "pushed_redo" ELSE "other")
       /\ UNCHANGED <<builder, g0, applied, onlyNoop, gest>>

\* history.clear()
ClearStep ==
    /\ Tick("clear")
    /\ history' = clear(history)
    /\ phase' = "other"
    /\ UNCHANGED <<canvas, builder, ret, g0, pure, applied, onlyNoop, gest>>

\* Every Canvas, OperationBuilder and History method.
Next ==
    \/ SetStep
    \/ ResizeStep
    \/ ApplyStep
    \/ PushStep
    \/ DropStep
    \/ UndoStep
    \/ RedoStep
    \/ ClearStep

Spec == Init /\ [][Next]_vars

\* Gestures and the History alone: the canvas changes only through them.
InitHistory == Start(MaxHistSteps)

NextHistory ==
    \/ ApplyStep
    \/ PushStep
    \/ DropStep
    \/ UndoStep
    \/ RedoStep
    \/ ClearStep

SpecHistory == InitHistory /\ [][NextHistory]_vars

\* Brush stamps and single applies on one builder after another.
InitStamp == Start(MaxStampSteps)

NextStamp ==
    \/ StampStep
    \/ ApplyStep
    \/ DropStep

SpecStamp == InitStamp /\ [][NextStamp]_vars

\* ------------------------------------------------- tools.rs, called alone
\* The points handed to the tools.rs functions.
Pts == {Point_new(x, y) : x \in -MaxPt..MaxPt, y \in -MaxPt..MaxPt}

\* What a call of a tools.rs function and a brush size key leave alone.
ToolFrame ==
    /\ UNCHANGED <<canvas, builder, history, ret, g0, pure, applied, onlyNoop,
                   gest, phase>>
    /\ UNCHANGED appvars

\* One call of a tools.rs function is made.
ToolTick(fn) ==
    /\ budget > 0
    /\ budget' = budget - 1
    /\ last' = fn
    /\ UNCHANGED brush_size
    /\ ToolFrame

\* bresenham_line(start, end)
LineStep ==
    \E start \in Pts, end \in Pts :
        /\ ToolTick("bresenham_line")
        /\ call' = [NoCall EXCEPT !.fn = "bresenham_line",
                                  !.start = start, !.end = end]
        /\ points' = bresenham_line(start, end)

\* rectangle_points(start, end, filled)
RectangleStep ==
    \E start \in Pts, end \in Pts, filled \in BOOLEAN :
        /\ ToolTick("rectangle_points")
        /\ call' = [NoCall EXCEPT !.fn = "rectangle_points", !.start = start,
                                  !.end = end, !.filled = filled]
        /\ points' = rectangle_points(start, end, filled)

\* ellipse_points(start, end)
EllipseStep ==
    \E start \in Pts, end \in Pts :
        /\ ToolTick("ellipse_points")
        /\ call' = [NoCall EXCEPT !.fn = "ellipse_points",
                                  !.start = start, !.end = end]
        /\ points' = ellipse_points(start, end)

\* brush_points(center, size), with the size the application holds.
BrushStep ==
    \E center \in Pts :
        /\ ToolTick("brush_points")
        /\ call' = [NoCall EXCEPT !.fn = "brush_points",
                                  !.start = center, !.size = brush_size]
        /\ points' = brush_points(center, brush_size)

\* handle_key, '['
SizeDecreaseStep ==
    /\ brush_size' = size_decrease(brush_size)
    /\ UNCHANGED <<call, points, last, budget>>
    /\ ToolFrame

\* handle_key, ']'
SizeIncreaseStep ==
    /\ brush_size' = size_increase(brush_size)
    /\ UNCHANGED <<call, points, last, budget>>
    /\ ToolFrame

InitTools ==
    /\ Start(MaxToolCalls)
    /\ canvas = Canvas_new(1, 1)
    /\ history.capacity = MaxCap

NextTools ==
    \/ LineStep
    \/ RectangleStep
    \/ EllipseStep
    \/ BrushStep
    \/ SizeDecreaseStep
    \/ SizeIncreaseStep

SpecTools == InitTools /\ [][NextTools]_vars

\* bresenham_line taken one loop iteration at a time: call holds, next to the
\* arguments, the loop variables (loop); points holds the vector pushed so far.
LineCall(fn, start, end, s) ==
    [fn |-> fn, start |-> start, end |-> end, filled |-> FALSE, size |-> 1,
     target |-> blank, replacement |-> blank,
     loop |-> [s EXCEPT !.points = <<>>]]

\* bresenham_line(start, end) is called and reaches its loop.
LineBeginStep ==
    \E start \in Pts, end \in Pts :
        /\ call.fn # "line_loop"
        /\ ToolTick("line_begin")
        /\ call' = LineCall("line_loop", start, end, line_start(start, end))
        /\ points' = <<>>

\* One iteration of the loop; the one that breaks returns points.
LineIterStep ==
    /\ call.fn = "line_loop"
    /\ LET s == line_iter([call.loop EXCEPT !.points = points])
       IN /\ call' = LineCall(IF s.done THEN "line_done" ELSE "line_loop",
                              call.start, call.end, s)
          /\ points' = s.points
          /\ last' = (IF s.done THEN "line_break" ELSE "line_iter")
    /\ UNCHANGED <<budget, brush_size>>
    /\ ToolFrame

NextLine ==
    \/ LineBeginStep
    \/ LineIterStep

\* A call that has begun goes on: the loop runs to its break.
SpecLine == InitTools /\ [][NextLine]_vars /\ WF_vars(LineIterStep)

\* ellipse_points taken one loop turn at a time, as bresenham_line above.
EllipseCall(fn, start, end, s) ==
    [fn |-> fn, start |-> start, end |-> end, filled |-> FALSE, size |-> 1,
     target |-> blank, replacement |-> blank,
     loop |-> [s EXCEPT !.points = <<>>]]

\* ellipse_points(start, end) is called: with a radius of 0 it returns at
\* once, else it reaches its first loop.
EllipseBegin(start, end) ==
    LET min_x == Min(start.x, end.x)
        max_x == Max(start.x, end.x)
        min_y == Min(start.y, end.y)
        max_y == Max(start.y, end.y)
        rx == abs((max_x - min_x) \div 2)
        ry == abs((max_y - min_y) \div 2)
        s == ellipse_start(rx, ry, min_x + rx, min_y + ry)
    IN /\ call.fn \notin {"ellipse_loop", "ellipse_return"}
       /\ ToolTick(IF rx = 0 \/ ry = 0 THEN "ellipse_flat"
                   ELSE "ellipse_begin")
       /\ call' = EllipseCall(IF rx = 0 \/ ry = 0 THEN "ellipse_done"
                              ELSE "ellipse_loop", start, end, s)
       /\ points' = (IF rx = 0 \/ ry = 0 THEN ellipse_points(start, end)
                     ELSE <<>>)

\* The call with corners among the points of the other tools.rs calls.
EllipseBeginStep ==
    \E start \in Pts, end \in Pts : EllipseBegin(start, end)

\* The corners of boxes up to MaxWide columns wide and MaxFlat rows high.
WidePts == {Point_new(x, y) : x \in 0..MaxWide, y \in 0..MaxFlat}

\* The call with the corners of a wide, flat box.
WideEllipseBeginStep ==
    \E start \in WidePts, end \in WidePts : EllipseBegin(start, end)

\* One turn of the loops.
EllipseIterStep ==
    /\ call.fn = "ellipse_loop"
    /\ LET s == ellipse_iter([call.loop EXCEPT !.points = points])
       IN /\ call' = EllipseCall(IF s.pc = "return" THEN "ellipse_return"
                                 ELSE "ellipse_loop", call.start, call.end, s)
          /\ points' = s.points
          /\ last' = s.pc
    /\ UNCHANGED <<budget, brush_size>>
    /\ ToolFrame

\* The return after the loops: dedup_points(points).
EllipseReturnStep ==
    /\ call.fn = "ellipse_return"
    /\ call' = [call EXCEPT !.fn = "ellipse_done"]
    /\ points' = dedup_points(points)
    /\ last' = "done"
    /\ UNCHANGED <<budget, brush_size>>
    /\ ToolFrame

NextEllipse ==
    \/ EllipseBeginStep
    \/ EllipseIterStep
    \/ EllipseReturnStep

\* A call that has begun goes on: each loop is run turn by turn.
SpecEllipse == InitTools /\ [][NextEllipse]_vars /\ WF_vars(EllipseIterStep)

\* ellipse_points on wide, flat boxes.
NextWide ==
    \/ WideEllipseBeginStep
    \/ EllipseIterStep
    \/ EllipseReturnStep

SpecWide == InitTools /\ [][NextWide]_vars /\ WF_vars(EllipseIterStep)

\* ------------------------------------------------------------ flood fill
\* The cell values of the canvases handed to flood_fill_points.
FillCells == {blank, PaintCell_new("#", "White")}

\* The canvases of width and height 1..maxdim whose cells hold values of
\* cells: what set, or a load, can leave.
Canvases(maxdim, cells) ==
    UNION {{[width |-> w, height |-> h, cells |-> cs] :
               cs \in [1..(w * h) -> cells]} :
           w \in 1..maxdim, h \in 1..maxdim}

\* The start points handed to flood_fill_points: one step off-grid each way.
FloodPts == {Point_new(x, y) : x \in -1..MaxFillDim, y \in -1..MaxFillDim}

\* flood_fill_points(&canvas, start, target, replacement)
FloodStep ==
    \E start \in FloodPts, target \in CellValues, replacement \in CellValues :
        /\ ToolTick("flood_fill_points")
        /\ call' = [NoCall EXCEPT !.fn = "flood_fill_points", !.start = start,
                                  !.target = target,
                                  !.replacement = replacement]
        /\ points' = flood_fill_points(canvas, start, target, replacement)

InitFlood ==
    /\ canvas \in Canvases(MaxFillDim, FillCells)
    /\ history = History_new(MaxCap)
    /\ Fresh(MaxToolCalls)

NextFlood == FloodStep

SpecFlood == InitFlood /\ [][NextFlood]_vars

\* The draw specs of a fill click: current_draw_spec with the Fill tool
\* selected and one of two brushes.
FillSpecs ==
    {[tool |-> "Fill", ch |-> "#", color |-> "White", size |-> brush_size],
     [tool |-> "Fill", ch |-> "x", color |-> "Red", size |-> brush_size]}

\* A left press on the canvas at (x, y) with the Fill tool selected.
FillClickStep ==
    \E x \in UCoord, y \in UCoord, spec \in FillSpecs :
        LET r == fill_click(canvas, history, Point_new(x, y), spec)
            clicked == get_i32(canvas, x, y)
        IN /\ Tick(IF clicked = None THEN "fill_oob"
                   ELSE IF clicked = Some(draw_cell(spec)) THEN "fill_same"
                   ELSE "fill")
           /\ canvas' = r.canvas
           /\ history' = r.history
           /\ pure' = (pure /\ canvas' = canvas)
           /\ gest' = [pre |-> canvas, post |-> r.canvas, hist |-> r.history,
                       nonempty |-> ~is_empty(r.op), pure |-> TRUE,
                       applied |-> TRUE,
                       undone |-> Len(history.undo_stack),
                       redone |-> Len(history.redo_stack)]
           /\ phase' = "other"
           /\ UNCHANGED <<builder, ret, g0, applied, onlyNoop>>

\* Fill clicks, undo and redo on a painted canvas.
InitFill ==
    /\ canvas \in Canvases(MaxDim, CellValues)
    /\ \E capacity \in 0..MaxCap : history = History_new(capacity)
    /\ Fresh(MaxFillSteps)

NextFill ==
    \/ FillClickStep
    \/ UndoStep
    \/ RedoStep

SpecFill == InitFill /\ [][NextFill]_vars

\* ---------------------------------------------------------- the application
\* App::current_draw_spec
current_draw_spec ==
    [tool |-> tool, ch |-> brush_char, color |-> color, size |-> brush_size]

\* The points a mouse event names: ui::mouse_to_canvas gives a point only
\* inside canvas_inner, the area resize_to_fit keeps the canvas equal to.
Hover ==
    {Point_new(x, y) : x \in 0..(canvas.width - 1),
                       y \in 0..(canvas.height - 1)}

\* The cells of c end before its last row does: the frame's draw, which reads
\* every cell with get, indexes past them and panics.
Short(c) == Len(c.cells) < c.width * c.height

\* The freehand drag in progress has recorded a change.
PendingChanges ==
    mouse_mode.kind = "FreeDrag" /\ mouse_mode.builder # OperationBuilder_new

\* One event is read and handled, after a frame that drew the canvas.
AppTick(tag) ==
    /\ budget > 0
    /\ ~crashed
    /\ ~Short(canvas)
    /\ budget' = budget - 1
    /\ last' = tag
    /\ UNCHANGED <<builder, call, points, pure, applied, onlyNoop, brush_size,
                   brush_char, color, filled_shapes>>

\* The event is a key or a move that ends the run of undo and redo keys.
EndRun ==
    /\ run' = NoRun
    /\ phase' = "other"

\* App::resize_to_fit
resize_to_fit(c, w, h) == resize_preserve(c, Max(w, 1), Max(h, 1))

\* A frame of the main loop after the terminal changed size, or on a canvas
\* whose cells end early: resize_to_fit, then the draw.
FrameStep ==
    \E w \in UCoord, h \in UCoord :
        LET same == Max(w, 1) = canvas.width /\ Max(h, 1) = canvas.height
            panics == IF same THEN Short(canvas)
                      ELSE resize_panics(canvas, Max(w, 1), Max(h, 1))
        IN /\ budget > 0
           /\ ~crashed
           /\ ~same \/ Short(canvas)
           /\ budget' = budget - 1
           /\ last' = (IF panics THEN "frame_panic" ELSE "frame")
           /\ crashed' = panics
           /\ canvas' = (IF panics THEN canvas ELSE resize_to_fit(canvas, w, h))
           /\ sync' = (IF panics
                          \/ (/\ history.undo_stack = <<>>
                              /\ history.redo_stack = <<>>
                              /\ mouse_mode.kind # "FreeDrag")
                       THEN sync ELSE "no")
           /\ trail' = NoTrail
           /\ EndRun
           /\ UNCHANGED <<builder, call, points, pure, applied, onlyNoop,
                          brush_size, brush_char, color, filled_shapes,
                          history, ret, g0, gest, tool, mouse_mode, prompt,
                          current_file, status, written, loaded, stale>>

\* The tools of the keys p, e, l, r, c and f.
Tools == {"Pencil", "Eraser", "Line", "Rectangle", "Circle", "Fill"}

\* handle_key: one of the tool keys, naming another tool than the current.
KeyToolStep ==
    \E t \in Tools \ {tool} :
        /\ AppTick("key_tool")
        /\ prompt = PromptNone
        /\ tool' = t
        /\ EndRun
        /\ UNCHANGED <<canvas, history, ret, g0, gest, mouse_mode, prompt,
                       current_file, status, crashed, written, loaded, stale,
                       trail, sync>>

\* What the trail becomes when a gesture starts on the canvas c.
trail_at_press(t, c) ==
    IF t.pushes # <<>> /\ (t.undos > 0 \/ c # t.pushes[Len(t.pushes)].post)
    THEN NoTrail ELSE t

\* What the trail becomes when commit_builder ran on op and left the canvas c.
trail_at_commit(t, op, c) ==
    IF is_empty(op) THEN t
    ELSE IF t.undos > 0
    THEN [pushes |-> <<[op |-> op, post |-> c]>>, undos |-> 0, oks |-> 0]
    ELSE [t EXCEPT !.pushes = Append(@, [op |-> op, post |-> c])]

\* handle_mouse, Down(Left) on the canvas: begin_left_draw.
PressStep ==
    \E point \in Hover :
        LET spec == current_draw_spec
            free == tool \in {"Pencil", "Eraser"}
            fill == tool = "Fill"
            r == begin_left_draw(canvas, history, mouse_mode, spec,
                                 filled_shapes, point)
            op == IF fill THEN fill_click(canvas, history, point, spec).op
                  ELSE <<>>
        IN /\ AppTick(IF free THEN "press_free"
                      ELSE IF fill THEN "press_fill" ELSE "press_shape")
           /\ prompt = PromptNone
           /\ canvas' = r.canvas
           /\ history' = r.history
           /\ mouse_mode' = r.mouse_mode
           /\ g0' = (IF free THEN canvas ELSE g0)
           /\ gest' = (IF fill
                       THEN [pre |-> canvas, post |-> r.canvas,
                             hist |-> r.history, nonempty |-> ~is_empty(op),
                             pure |-> TRUE, applied |-> TRUE,
                             undone |-> Len(history.undo_stack),
                             redone |-> Len(history.redo_stack)]
                       ELSE gest)
           /\ stale' = (IF fill /\ stale = "builder" THEN stale ELSE "no")
           /\ sync' = (IF fill
                       THEN (IF sync = "pending" /\ PendingChanges
                                /\ ~is_empty(op)
                             THEN "no" ELSE sync)
                       ELSE IF PendingChanges \/ sync = "no" THEN "no"
                       ELSE IF free THEN "pending" ELSE "yes")
           /\ trail' = (IF fill
                        THEN trail_at_commit(trail_at_press(trail, canvas),
                                             op, r.canvas)
                        ELSE trail_at_press(trail, canvas))
           /\ run' = NoRun
           /\ phase' = (IF free THEN "drag" ELSE "other")
           /\ UNCHANGED <<ret, tool, prompt, current_file, status, crashed,
                          written, loaded>>

\* handle_mouse, Drag(Left) on the canvas: drag_left_draw.
DragStep ==
    \E point \in Hover :
        LET r == drag_left_draw(canvas, mouse_mode, point)
        IN /\ AppTick("drag")
           /\ prompt = PromptNone
           /\ mouse_mode.kind # "Idle"
           /\ canvas' = r.canvas
           /\ mouse_mode' = r.mouse_mode
           /\ trail' = (IF trail.undos > 0 /\ r.canvas # canvas
                        THEN NoTrail ELSE trail)
           /\ run' = NoRun
           /\ phase' = (IF phase = "drag" THEN "drag" ELSE "other")
           /\ UNCHANGED <<history, ret, g0, gest, tool, prompt, current_file,
                          status, crashed, written, loaded, stale, sync>>

\* handle_mouse, Up(Left), on the canvas or off it: finish_left_draw.
ReleaseStep ==
    \E maybe_end \in {None} \cup {Some(q) : q \in Hover} :
        LET r == finish_left_draw(canvas, history, mouse_mode, maybe_end)
            free == mouse_mode.kind = "FreeDrag"
        IN /\ AppTick(IF mouse_mode.kind = "Idle" THEN "release_idle"
                      ELSE IF is_empty(r.op) THEN "release_empty"
                      ELSE "release")
           /\ prompt = PromptNone
           /\ mouse_mode.kind = "ShapeDrag" \/ maybe_end = None
           /\ canvas' = r.canvas
           /\ history' = r.history
           /\ mouse_mode' = Idle
           /\ gest' = (IF mouse_mode.kind = "Idle" THEN gest
                       ELSE [pre |-> IF free THEN g0 ELSE canvas,
                             post |-> r.canvas, hist |-> r.history,
                             nonempty |-> ~is_empty(r.op),
                             pure |-> (free => sync = "pending"),
                             applied |-> TRUE,
                             undone |-> Len(history.undo_stack),
                             redone |-> Len(history.redo_stack)])
           /\ phase' = (IF free /\ phase = "drag" THEN "pushed" ELSE "other")
           /\ run' = NoRun
           /\ stale' = (IF free /\ stale = "builder"
                        THEN (IF is_empty(r.op) THEN "no" ELSE "pushed")
                        ELSE stale)
           /\ sync' = (IF free /\ sync = "pending" THEN "yes" ELSE sync)
           /\ trail' = trail_at_commit(
                           IF free THEN trail
                           ELSE trail_at_press(trail, canvas),
                           r.op, r.canvas)
           /\ UNCHANGED <<ret, g0, tool, prompt, current_file, status,
                          crashed, written, loaded>>

\* handle_key, the undo shortcut or the key u: perform_undo.
KeyUndoStep ==
    LET r == undo(history, canvas)
    IN /\ AppTick(IF r.ret THEN "key_undo" ELSE "key_undo_empty")
       /\ prompt = PromptNone
       /\ history' = r.history
       /\ canvas' = r.canvas
       /\ ret' = r.ret
       /\ status' = (IF r.ret THEN "Undo" ELSE "Nothing to undo")
       /\ phase' = (IF phase = "pushed" THEN "undone"
                    ELSE IF phase = "drag" THEN "drag" ELSE "other")
       /\ run' = (IF run.undos > 0 /\ run.redos = 0
                  THEN [run EXCEPT !.undos = @ + 1, !.ok = @ /\ r.ret]
                  ELSE [canvas |-> canvas, history |-> history, undos |-> 1,
                        redos |-> 0, idle |-> mouse_mode = Idle,
                        ok |-> r.ret, sync |-> sync = "yes"])
       /\ trail' = (IF trail.pushes = <<>> THEN trail
                    ELSE IF trail.undos = 0
                            /\ canvas # trail.pushes[Len(trail.pushes)].post
                    THEN NoTrail
                    ELSE [trail EXCEPT !.undos = @ + 1,
                                       !.oks = @ + (IF r.ret THEN 1 ELSE 0)])
       /\ sync' = (IF sync = "pending" /\ r.ret /\ PendingChanges
                   THEN "no" ELSE sync)
       /\ UNCHANGED <<g0, gest, tool, mouse_mode, prompt, current_file,
                      crashed, written, loaded, stale>>

\* handle_key, the redo shortcut or the key y: perform_redo.
KeyRedoStep ==
    LET r == redo(history, canvas)
    IN /\ AppTick(IF r.ret THEN "key_redo" ELSE "key_redo_empty")
       /\ prompt = PromptNone
       /\ history' = r.history
       /\ canvas' = r.canvas
       /\ ret' = r.ret
       /\ status' = (IF r.ret THEN "Redo" ELSE "Nothing to redo")
       /\ phase' = (IF phase = "undone" THEN "redone"
                    ELSE IF phase = "drag" THEN "drag" ELSE "other")
       /\ run' = (IF run.undos > 0 /\ run.redos < run.undos
                  THEN [run EXCEPT !.redos = @ + 1, !.ok = @ /\ r.ret]
                  ELSE NoRun)
       /\ trail' = (IF r.ret THEN NoTrail ELSE trail)
       /\ sync' = (IF sync = "pending" /\ r.ret /\ PendingChanges
                   THEN "no" ELSE sync)
       /\ UNCHANGED <<g0, gest, tool, mouse_mode, prompt, current_file,
                      crashed, written, loaded, stale>>

\* handle_key, Esc outside a prompt: a shape drag is cancelled.
KeyEscStep ==
    /\ AppTick(IF mouse_mode.kind = "ShapeDrag" THEN "key_esc" ELSE "key_esc_idle")
    /\ prompt = PromptNone
    /\ mouse_mode' = (IF mouse_mode.kind = "ShapeDrag" THEN Idle
                      ELSE mouse_mode)
    /\ status' = (IF mouse_mode.kind = "ShapeDrag" THEN "Shape cancelled"
                  ELSE status)
    /\ EndRun
    /\ UNCHANGED <<canvas, history, ret, g0, gest, tool, prompt, current_file,
                   crashed, written, loaded, stale, trail, sync>>

\* ---------------------------------------------- the drawing parameters
\* ui::BRUSH_CHOICES
BRUSH_CHOICES == <<"#", "@", ".", "*", "+", "%", " ">>

\* PaintColor::quick_palette
quick_palette ==
    <<"Black", "Red", "Green", "Yellow", "Blue", "Magenta", "Cyan", "White">>

\* PaintColor::from_quick_index
from_quick_index(idx) ==
    IF idx >= 1 /\ idx <= Len(quick_palette) THEN Some(quick_palette[idx])
    ELSE None

\* iter().position(..).unwrap_or(0): the 0-based place of v in choices, 0
\* when it is not there.
position_or_0(choices, v) ==
    IF \E i \in DOMAIN choices : choices[i] = v
    THEN (CHOOSE i \in DOMAIN choices :
              /\ choices[i] = v
              /\ \A j \in 1..(i - 1) : choices[j] # v) - 1
    ELSE 0

\* The index arithmetic of cycle_color and cycle_brush_char.
cycle(choices, v, forward) ==
    LET idx == position_or_0(choices, v)
        next == IF forward THEN (idx + 1) % Len(choices)
                ELSE IF idx = 0 THEN Len(choices) - 1
                ELSE idx - 1
    IN choices[next + 1]

\* App::cycle_color
cycle_color(c, forward) == cycle(quick_palette, c, forward)

\* App::cycle_brush_char
cycle_brush_char(ch, forward) == cycle(BRUSH_CHOICES, ch, forward)

\* printable_char
printable_char(ch) == IF ch = " " THEN "U+2420" ELSE ch

\* One event is read and handled, after a frame that drew the canvas; the
\* event is one that may assign brush_size, brush_char, color or
\* filled_shapes.
ParamTick(tag) ==
    /\ budget > 0
    /\ ~crashed
    /\ ~Short(canvas)
    /\ budget' = budget - 1
    /\ last' = tag
    /\ UNCHANGED <<builder, call, points, pure, applied, onlyNoop>>

\* What an event that is no gesture event and no undo or redo key leaves as
\* it was.
ParamFrame ==
    /\ EndRun
    /\ UNCHANGED <<canvas, history, ret, g0, gest, tool, mouse_mode, prompt,
                   current_file, crashed, written, loaded, stale, trail, sync>>

\* handle_key, '[' and ']'
KeySizeStep ==
    \E up \in BOOLEAN :
        /\ ParamTick(IF up THEN "key_size_up" ELSE "key_size_down")
        /\ prompt = PromptNone
        /\ brush_size' = (IF up THEN size_increase(brush_size)
                          ELSE size_decrease(brush_size))
        /\ ParamFrame
        /\ UNCHANGED <<brush_char, color, filled_shapes, status>>

\* The 't' key reaching the shape gesture in progress: its filled flag is
\* toggled with App::filled_shapes.
KeyFillToggle_live ==
    /\ ParamTick("key_fill_toggle")
    /\ prompt = PromptNone
    /\ filled_shapes' = ~filled_shapes
    /\ mouse_mode' = (IF mouse_mode.kind = "ShapeDrag"
                      THEN [mouse_mode EXCEPT !.filled = ~filled_shapes]
                      ELSE mouse_mode)
    /\ EndRun
    /\ UNCHANGED <<canvas, history, ret, g0, gest, tool, prompt,
                   current_file, crashed, written, loaded, stale, trail, sync>>
    /\ UNCHANGED <<brush_size, brush_char, color, status>>

\* handle_key, 't'
KeyFillToggleStep ==
    /\ ParamTick("key_fill_toggle")
    /\ prompt = PromptNone
    /\ filled_shapes' = ~filled_shapes
    /\ ParamFrame
    /\ UNCHANGED <<brush_size, brush_char, color, status>>

\* handle_key, 'b'
KeyBrushCharStep ==
    /\ ParamTick("key_brush_char")
    /\ prompt = PromptNone
    /\ brush_char' = cycle_brush_char(brush_char, TRUE)
    /\ ParamFrame
    /\ UNCHANGED <<brush_size, color, filled_shapes, status>>

\* handle_key, '0' or 'd' and the digits '1'..'8'
KeyColorStep ==
    \E idx \in 0..MaxColorKey :
        LET quick == from_quick_index(idx)
        IN /\ ParamTick("key_color")
           /\ prompt = PromptNone
           /\ color' = (IF idx = 0 THEN "Default"
                        ELSE IF quick = None THEN color
                        ELSE CHOOSE c \in quick : TRUE)
           /\ ParamFrame
           /\ UNCHANGED <<brush_size, brush_char, filled_shapes, status>>

\* handle_mouse, ScrollUp and ScrollDown: cycle_color.
ScrollStep ==
    \E forward \in BOOLEAN :
        /\ ParamTick(IF forward THEN "scroll_up" ELSE "scroll_down")
        /\ prompt = PromptNone
        /\ color' = cycle_color(color, forward)
        /\ ParamFrame
        /\ UNCHANGED <<brush_size, brush_char, filled_shapes, status>>

\* handle_mouse, Down(Right) on the canvas: sample_cell.
SampleStep ==
    \E point \in Hover :
        LET cell == CHOOSE v \in get_i32(canvas, point.x, point.y) : TRUE
            ch == IF cell.ch # " " THEN cell.ch ELSE brush_char
        IN /\ ParamTick("sample")
           /\ prompt = PromptNone
           /\ brush_char' = ch
           /\ color' = cell.fg
           /\ status' = "Sampled '" \o printable_char(ch) \o "' / " \o cell.fg
           /\ ParamFrame
           /\ UNCHANGED <<brush_size, filled_shapes>>

\* The toolbar buttons pressed: every tool, the fill toggle, the first brush
\* characters and the Default colour with the first palette colours.
ToolbarActions ==
    {[kind |-> "SelectTool", arg |-> t] : t \in Tools}
        \cup {[kind |-> "ToggleFilledShapes", arg |-> ""]}
        \cup {[kind |-> "SelectBrushChar", arg |-> BRUSH_CHOICES[i]] :
                 i \in 1..MaxColorKey}
        \cup {[kind |-> "SelectColor", arg |-> "Default"]}
        \cup {[kind |-> "SelectColor", arg |-> quick_palette[i]] :
                 i \in 1..MaxColorKey}

\* handle_mouse, Down(Left) on a toolbar button: apply_toolbar_action.
ToolbarStep ==
    \E action \in ToolbarActions :
        LET k == action.kind
        IN /\ ParamTick("toolbar")
           /\ prompt = PromptNone
           /\ tool' = (IF k = "SelectTool" THEN action.arg ELSE tool)
           /\ brush_char' = (IF k = "SelectBrushChar" THEN action.arg
                             ELSE brush_char)
           /\ color' = (IF k = "SelectColor" THEN action.arg ELSE color)
           /\ filled_shapes' = (IF k = "ToggleFilledShapes"
                                THEN ~filled_shapes ELSE filled_shapes)
           /\ status' = (IF k = "SelectTool" THEN "Tool: " \o action.arg
                         ELSE IF k = "SelectBrushChar"
                         THEN "Brush char: " \o printable_char(action.arg)
                         ELSE IF k = "SelectColor"
                         THEN "Color: " \o action.arg
                         ELSE IF filled_shapes' THEN "Rectangle fill enabled"
                         ELSE "Rectangle fill disabled")
           /\ EndRun
           /\ UNCHANGED <<canvas, history, ret, g0, gest, mouse_mode, prompt,
                          current_file, crashed, written, loaded, stale,
                          trail, sync, brush_size>>

\* handle_key, Ctrl+O: open_load_prompt.
OpenLoadPromptStep ==
    /\ AppTick("open_load")
    /\ prompt = PromptNone
    /\ prompt' = open_load_prompt(current_file)
    /\ EndRun
    /\ UNCHANGED <<canvas, history, ret, g0, gest, tool, mouse_mode,
                   current_file, status, crashed, written, loaded, stale,
                   trail, sync>>

\* handle_key, Ctrl+S: open_save_prompt.
OpenSavePromptStep ==
    /\ AppTick("open_save")
    /\ prompt = PromptNone
    /\ prompt' = open_save_prompt(current_file)
    /\ EndRun
    /\ UNCHANGED <<canvas, history, ret, g0, gest, tool, mouse_mode,
                   current_file, status, crashed, written, loaded, stale,
                   trail, sync>>

\* handle_mouse while a prompt is open: the event is dropped.
MouseIgnoredStep ==
    /\ AppTick("mouse_ignored")
    /\ prompt # PromptNone
    /\ EndRun
    /\ UNCHANGED <<canvas, history, ret, g0, gest, tool, mouse_mode, prompt,
                   current_file, status, crashed, written, loaded, stale,
                   trail, sync>>

\* handle_prompt_key, a character key: it is appended to the input.
PromptCharStep ==
    /\ AppTick("prompt_char")
    /\ prompt # PromptNone
    /\ Len(prompt.input) < Len("canvas.json") + MaxTyped
    /\ prompt' = [prompt EXCEPT !.input = @ \o "a"]
    /\ EndRun
    /\ UNCHANGED <<canvas, history, ret, g0, gest, tool, mouse_mode,
                   current_file, status, crashed, written, loaded, stale,
                   trail, sync>>

\* handle_prompt_key, Backspace: input.pop().
PromptBackspaceStep ==
    /\ AppTick("prompt_backspace")
    /\ prompt # PromptNone
    /\ prompt' = [prompt EXCEPT
                     !.input = IF @ = "" THEN @ ELSE SubSeq(@, 1, Len(@) - 1)]
    /\ EndRun
    /\ UNCHANGED <<canvas, history, ret, g0, gest, tool, mouse_mode,
                   current_file, status, crashed, written, loaded, stale,
                   trail, sync>>

\* handle_prompt_key, Esc: the prompt closes.
PromptEscStep ==
    /\ AppTick("prompt_esc")
    /\ prompt # PromptNone
    /\ prompt' = PromptNone
    /\ status' = "Prompt cancelled"
    /\ EndRun
    /\ UNCHANGED <<canvas, history, ret, g0, gest, tool, mouse_mode,
                   current_file, crashed, written, loaded, stale, trail,
                   sync>>

\* The cell a loaded file brings that no brush of the explored runs writes.
mark == PaintCell_new("x", "Red")

\* The Canvas values of the explored JSON documents: two that satisfy
\* cells.len() = width * height and three that do not.
JsonValues ==
    {[width |-> 1, height |-> 1, cells |-> <<mark>>],
     [width |-> 2, height |-> 1, cells |-> <<blank, mark>>],
     [width |-> 2, height |-> 1, cells |-> <<mark>>],
     [width |-> 1, height |-> 1, cells |-> <<mark, mark>>],
     [width |-> 0, height |-> 1, cells |-> <<>>]}

\* The explored texts of plain-text files.
Texts == {<<>>, <<"x">>, <<"x", LF, " ", "x">>}

\* What the explored file system holds at a path.
FilesAt(path) ==
    IF is_json(path)
    THEN {Missing, Malformed} \cup {JsonFile(v) : v \in JsonValues}
    ELSE {Missing} \cup {TextFile(t) : t \in Texts}

\* handle_prompt_key, Enter, in the load prompt: commit_prompt.
CommitLoadStep ==
    /\ prompt.kind = "Load"
    /\ \E file \in FilesAt(parse_path(prompt.input, "canvas.json")) :
        LET path == parse_path(prompt.input, "canvas.json")
            result == load_canvas(path, file)
            r == commit_load(canvas, history, current_file, path, result)
        IN /\ AppTick(IF ~result.ok THEN "load_err"
                      ELSE IF r.panic THEN "load_panic" ELSE "load_ok")
           /\ prompt' = PromptNone
           /\ loaded' = (IF result.ok THEN Some(result.canvas) ELSE None)
           /\ crashed' = r.panic
           /\ canvas' = (IF r.panic THEN canvas ELSE r.canvas)
           /\ history' = (IF r.panic THEN history ELSE r.history)
           /\ current_file' = (IF r.panic THEN current_file
                               ELSE r.current_file)
           /\ status' = (IF r.panic THEN status ELSE r.status)
           /\ stale' = (IF ~result.ok \/ r.panic THEN stale
                        ELSE IF PendingChanges THEN "builder" ELSE "no")
           /\ sync' = (IF ~result.ok \/ r.panic THEN sync
                       ELSE IF PendingChanges THEN "no"
                       ELSE IF mouse_mode.kind = "FreeDrag" THEN "pending"
                       ELSE "yes")
           /\ trail' = (IF ~result.ok \/ r.panic THEN trail ELSE NoTrail)
           /\ EndRun
           /\ UNCHANGED <<ret, g0, gest, tool, mouse_mode, written>>

\* handle_prompt_key, Enter, in the save prompt: commit_prompt; the write
\* succeeds or fails.
CommitSaveStep ==
    \E wrote \in BOOLEAN :
        LET path == parse_path(prompt.input, "canvas.json")
            r == commit_save(current_file, path, wrote)
        IN /\ prompt.kind = "Save"
           /\ AppTick(IF wrote THEN "save_ok" ELSE "save_err")
           /\ prompt' = PromptNone
           /\ written' = (IF wrote THEN Some(save_canvas(path, canvas))
                          ELSE written)
           /\ current_file' = r.current_file
           /\ status' = r.status
           /\ EndRun
           /\ UNCHANGED <<canvas, history, ret, g0, gest, tool, mouse_mode,
                          crashed, loaded, stale, trail, sync>>

\* App::new on a terminal whose canvas area is w by h.
InitApp ==
    /\ \E w \in 1..MaxDim, h \in 1..MaxDim : canvas = Canvas_new(w, h)
    /\ history = History_new(UNDO_LIMIT)
    /\ Fresh(MaxEvents)

\* The events of the main loop.
NextApp ==
    \/ FrameStep
    \/ KeyToolStep
    \/ PressStep
    \/ DragStep
    \/ ReleaseStep
    \/ KeyUndoStep
    \/ KeyRedoStep
    \/ KeyEscStep
    \/ OpenLoadPromptStep
    \/ OpenSavePromptStep
    \/ MouseIgnoredStep
    \/ PromptCharStep
    \/ PromptBackspaceStep
    \/ PromptEscStep
    \/ CommitLoadStep
    \/ CommitSaveStep

SpecApp == InitApp /\ [][NextApp]_vars

\* Freehand and shape gestures with the undo and redo keys, and the tool keys.
InitDrag ==
    /\ \E w \in 1..MaxDim, h \in 1..MaxDim : canvas = Canvas_new(w, h)
    /\ history = History_new(UNDO_LIMIT)
    /\ Fresh(MaxDragEvents)

NextDrag ==
    \/ KeyToolStep
    \/ PressStep
    \/ DragStep
    \/ ReleaseStep
    \/ KeyUndoStep
    \/ KeyRedoStep

SpecDrag == InitDrag /\ [][NextDrag]_vars

\* Gestures, the undo and redo keys, and frames on a terminal that changes
\* size.
InitResize ==
    /\ \E w \in 1..MaxDim, h \in 1..MaxDim : canvas = Canvas_new(w, h)
    /\ history = History_new(UNDO_LIMIT)
    /\ Fresh(MaxResizeEvents)

NextResize ==
    \/ FrameStep
    \/ PressStep
    \/ ReleaseStep
    \/ KeyUndoStep
    \/ KeyRedoStep

SpecResize == InitResize /\ [][NextResize]_vars

\* One builder, History::push and History::undo: long enough for an operation
\* to be undone before a cell is painted and painted back.
InitDegenerate ==
    /\ \E w \in 1..MaxDim : canvas = Canvas_new(w, 1)
    /\ \E capacity \in 0..MaxCap : history = History_new(capacity)
    /\ Fresh(MaxDegSteps)

NextDegenerate ==
    \/ ApplyStep
    \/ PushStep
    \/ UndoStep

SpecDegenerate == InitDegenerate /\ [][NextDegenerate]_vars

\* The application's gestures and undo and redo keys on a canvas of one row,
\* with the undo limit scaled down to 1..MaxCap so that the History evicts
\* within the events explored.
InitStack ==
    /\ \E w \in 1..MaxStackWidth : canvas = Canvas_new(w, 1)
    /\ \E capacity \in 1..MaxCap : history = History_new(capacity)
    /\ Fresh(MaxStackEvents)

NextStack ==
    \/ PressStep
    \/ ReleaseStep
    \/ KeyUndoStep
    \/ KeyRedoStep

SpecStack == InitStack /\ [][NextStack]_vars

\* Freehand gestures on a canvas wide and high enough for two successive
\* mouse positions to lie apart.
InitGap ==
    /\ canvas = Canvas_new(MaxGapDim, MaxGapDim)
    /\ history = History_new(UNDO_LIMIT)
    /\ Fresh(MaxGapEvents)

NextGap ==
    \/ PressStep
    \/ DragStep
    \/ ReleaseStep

SpecGap == InitGap /\ [][NextGap]_vars

\* Gestures with the keys, wheel turns, right clicks and toolbar buttons that
\* change the tool and the drawing parameters, on a canvas large enough for a
\* rectangle to have an inside; the tool is any of the six.
InitParams ==
    /\ canvas = Canvas_new(MaxParamDim, MaxParamDim)
    /\ history = History_new(UNDO_LIMIT)
    /\ \E t \in Tools :
           /\ tool = t
           /\ builder = OperationBuilder_new
           /\ brush_size = 1
           /\ call = NoCall
           /\ points = <<>>
           /\ ret = FALSE
           /\ last = "new"
           /\ budget = MaxParamEvents
           /\ g0 = canvas
           /\ pure = TRUE
           /\ applied = FALSE
           /\ onlyNoop = TRUE
           /\ gest = NoGesture
           /\ phase = "other"
           /\ brush_char = "#"
           /\ color = "White"
           /\ filled_shapes = FALSE
           /\ mouse_mode = Idle
           /\ prompt = PromptNone
           /\ current_file = None
           /\ status = "Ready"
           /\ crashed = FALSE
           /\ written = None
           /\ loaded = None
           /\ stale = "no"
           /\ run = NoRun
           /\ trail = NoTrail
           /\ sync = "yes"

NextParams ==
    \/ KeyToolStep
    \/ KeySizeStep
    \/ KeyFillToggleStep
    \/ KeyBrushCharStep
    \/ KeyColorStep
    \/ ScrollStep
    \/ SampleStep
    \/ ToolbarStep
    \/ PressStep
    \/ DragStep
    \/ ReleaseStep

SpecParams == InitParams /\ [][NextParams]_vars

\* ------------------------------------------------------------------ claims
\* The cells of a canvas as the set of its in-range coordinates.
Coords(c) == {<<x, y>> \in (0..(c.width - 1)) \X (0..(c.height - 1)) : TRUE}

\* The gesture finished last changed the canvas through its builder alone and
\* made at least one apply call.
CleanGesture == gest.pure /\ gest.applied

\* C1 (as stated): an operation built by a gesture and pushed, with no other
\* canvas mutation: the undo that follows returns true and restores the canvas
\* before the gesture; the redo after it returns true, restores the canvas
\* after the gesture and leaves both stacks as they were before the undo.
C1_InverseLaw_AsStated ==
    /\ (phase = "undone" /\ CleanGesture) =>
           (ret = TRUE /\ canvas = gest.pre)
    /\ (phase = "redone" /\ CleanGesture) =>
           (ret = TRUE /\ canvas = gest.post /\ history = gest.hist)

\* C1 (amended): the inverse law for a non-empty operation pushed to a History
\* of capacity at least 1.
C1_InverseLaw ==
    /\ (phase = "undone" /\ CleanGesture /\ gest.nonempty
            /\ history.capacity >= 1) =>
           (ret = TRUE /\ canvas = gest.pre)
    /\ (phase = "redone" /\ CleanGesture /\ gest.nonempty
            /\ history.capacity >= 1) =>
           (ret = TRUE /\ canvas = gest.post /\ history = gest.hist)

\* A gesture that changed the canvas was pushed, undone and redone.
C1_Witness ==
    /\ phase = "redone"
    /\ CleanGesture /\ gest.nonempty /\ history.capacity >= 1
    /\ gest.pre # gest.post
    /\ canvas = gest.post

\* C2: while the canvas changed through the builder's apply calls alone, the
\* builder's operation replayed on the canvas of the builder's creation gives
\* that canvas back with apply_before and the current canvas with apply_after.
C2_RoundTrip ==
    pure =>
        LET op == into_operation(builder)
            copy == apply_before(op, g0)
        IN copy = g0 /\ apply_after(op, copy) = canvas

\* Two coordinates were changed, one of them again.
C2_Witness ==
    /\ pure
    /\ last = "apply_update"
    /\ Len(into_operation(builder)) >= 2
    /\ canvas # g0

\* C3: under the same condition the builder holds one change per coordinate,
\* its before is the value on the canvas of the builder's creation, its after
\* is the current value, and every coordinate without a change holds the
\* value it had at the builder's creation.
C3_Coalescing ==
    pure =>
        LET op == into_operation(builder)
        IN /\ \A k \in DOMAIN builder.changes :
                  /\ builder.changes[k].x = k[1] /\ builder.changes[k].y = k[2]
                  /\ k \in Coords(canvas)
                  /\ builder.changes[k].before = get(g0, k[1], k[2])
                  /\ builder.changes[k].after = get(canvas, k[1], k[2])
           /\ \A k \in Coords(canvas) \ DOMAIN builder.changes :
                  get(canvas, k[1], k[2]) = get(g0, k[1], k[2])
           /\ Len(op) = Cardinality(DOMAIN builder.changes)
           /\ \A i, j \in DOMAIN op :
                  (op[i].x = op[j].x /\ op[i].y = op[j].y) => i = j

\* A coordinate was written twice, with a value between the first and the last.
C3_Witness ==
    /\ pure
    /\ last = "apply_update"
    /\ \E k \in DOMAIN builder.changes :
           builder.changes[k].before # builder.changes[k].after

\* C4: right after the push of a non-empty operation the redo stack is empty,
\* and a redo made at once returns false and changes neither the canvas nor
\* the stacks.
C4_LinearHistory ==
    /\ (last = "push") => history.redo_stack = <<>>
    /\ (phase = "pushed_redo" /\ gest.nonempty) =>
           (ret = FALSE /\ canvas = gest.post /\ history = gest.hist)

\* A non-empty push was made while undone operations were waiting for a redo.
C4_Witness ==
    /\ last = "push"
    /\ gest.redone > 0

\* C5: the undo stack never holds more operations than the capacity.
C5_CapacityBound == Len(history.undo_stack) <= history.capacity

\* A push onto a full undo stack evicted the oldest operation.
C5_Witness ==
    /\ last = "push"
    /\ history.capacity >= 1
    /\ gest.undone = history.capacity
    /\ Len(history.undo_stack) = history.capacity

\* The canvas holds a cell that is not blank.
Painted(c) == \E i \in DOMAIN c.cells : c.cells[i] # blank

\* C6: the canvas is at least 1 x 1 and stores width * height cells.
C6_GridShape ==
    /\ canvas.width >= 1
    /\ canvas.height >= 1
    /\ Len(canvas.cells) = canvas.width * canvas.height

\* An undo ran on a canvas that was shrunk after the gesture: the operation
\* holds a coordinate that is now off the canvas.
C6_Witness ==
    /\ last = "undo"
    /\ \E i \in DOMAIN history.redo_stack :
           \E j \in DOMAIN history.redo_stack[i] :
               \/ history.redo_stack[i][j].x >= canvas.width
               \/ history.redo_stack[i][j].y >= canvas.height

\* u16 coordinates up to one past the largest width and height.
URange == 0..(MaxDim + 1)
\* i32 coordinates from one before the canvas to one past the largest size.
IRange == -1..(MaxDim + 1)

\* C7: get is blank and set changes nothing at every coordinate with
\* x >= width or y >= height; get_i32 is None exactly off the canvas and is
\* the cell get returns on it.
C7_OutOfRange ==
    /\ \A x \in URange, y \in URange :
           (x >= canvas.width \/ y >= canvas.height) =>
               /\ get(canvas, x, y) = blank
               /\ \A cell \in CellValues : set(canvas, x, y, cell) = canvas
    /\ \A x \in IRange, y \in IRange :
           /\ (get_i32(canvas, x, y) = None) <=>
                  (x < 0 \/ y < 0 \/ x >= canvas.width \/ y >= canvas.height)
           /\ (get_i32(canvas, x, y) # None) =>
                  get_i32(canvas, x, y) = Some(get(canvas, x, y))

\* A set off a painted canvas of more than one row was made.
C7_Witness ==
    /\ last = "set_oob"
    /\ Painted(canvas)
    /\ canvas.height > 1

\* The canvas c resized to (w, h) is r: its size is the clamped (w, h), the
\* cells below (keep_w, keep_h) hold their value in c, the others are blank.
ResizedTo(c, r, w, h, keep_w, keep_h) ==
    /\ r.width = Max(w, 1)
    /\ r.height = Max(h, 1)
    /\ Len(r.cells) = r.width * r.height
    /\ \A k \in Coords(r) :
           get(r, k[1], k[2]) =
               IF k[1] < keep_w /\ k[2] < keep_h
               THEN get(c, k[1], k[2])
               ELSE blank

\* C8 (as stated): the cells kept are those with x < min(old_w, w) and
\* y < min(old_h, h); a resize to the current size changes nothing.
C8_Resize_AsStated ==
    \A w \in UCoord, h \in UCoord :
        LET r == resize_preserve(canvas, w, h)
        IN /\ ResizedTo(canvas, r, w, h,
                        Min(canvas.width, w), Min(canvas.height, h))
           /\ (w = canvas.width /\ h = canvas.height) => r = canvas

\* C8 (amended): the cells kept are those with x < min(old_w, max(w, 1)) and
\* y < min(old_h, max(h, 1)).
C8_Resize ==
    \A w \in UCoord, h \in UCoord :
        LET r == resize_preserve(canvas, w, h)
        IN /\ ResizedTo(canvas, r, w, h,
                        Min(canvas.width, Max(w, 1)),
                        Min(canvas.height, Max(h, 1)))
           /\ (w = canvas.width /\ h = canvas.height) => r = canvas

\* A canvas was shrunk to one column and kept a painted cell in its second row.
C8_Witness ==
    /\ last = "resize"
    /\ canvas.width = 1 /\ canvas.height = 2
    /\ get(canvas, 0, 1) # blank

\* C9: an apply of the value a coordinate already holds changes neither the
\* canvas nor the builder, and a builder that received only such applies
\* finalizes to the empty operation.
C9_NoopWrites ==
    /\ \A k \in Coords(canvas) :
           LET r == apply(builder, canvas, k[1], k[2], get(canvas, k[1], k[2]))
           IN r.builder = builder /\ r.canvas = canvas
    /\ (applied /\ onlyNoop) => is_empty(into_operation(builder))

\* A painted cell was applied the value it holds, on a fresh builder.
C9_Witness ==
    /\ last = "apply_noop"
    /\ applied /\ onlyNoop
    /\ Painted(canvas)

\* The points of a stamp as a set.
StampSet(center, size) ==
    LET pts == brush_points(center, size)
    IN {<<pts[i].x, pts[i].y>> : i \in DOMAIN pts}

\* C10: an apply off the canvas changes neither the canvas nor the builder;
\* every recorded change is on the canvas; a stamp keeps the canvas size,
\* writes its cell to the on-canvas points of the stamp and leaves every
\* other cell and every other recorded change as it was.
C10_OffGrid ==
    /\ \A x \in IRange, y \in IRange, cell \in CellValues :
           ~in_bounds_i32(canvas, x, y) =>
               LET r == apply(builder, canvas, x, y, cell)
               IN r.builder = builder /\ r.canvas = canvas
    /\ DOMAIN builder.changes \subseteq Coords(canvas)
    /\ \A x \in Coord, y \in Coord, spec \in DrawSpecs :
           LET r == apply_point_with_spec(canvas, builder, Point_new(x, y), spec)
               stamp == StampSet(Point_new(x, y), spec.size)
           IN /\ r.canvas.width = canvas.width
              /\ r.canvas.height = canvas.height
              /\ Len(r.canvas.cells) = Len(canvas.cells)
              /\ DOMAIN r.builder.changes \subseteq Coords(canvas)
              /\ \A k \in Coords(canvas) :
                     IF k \in stamp
                     THEN get(r.canvas, k[1], k[2]) = draw_cell(spec)
                     ELSE /\ get(r.canvas, k[1], k[2]) = get(canvas, k[1], k[2])
                          /\ (k \in DOMAIN r.builder.changes) <=>
                                 (k \in DOMAIN builder.changes)
                          /\ (k \in DOMAIN builder.changes) =>
                                 r.builder.changes[k] = builder.changes[k]

\* One stamp centred off the canvas painted part of a canvas of several cells.
C10_Witness ==
    /\ last = "stamp"
    /\ budget = MaxStampSteps - 1
    /\ Cardinality(DOMAIN builder.changes) >= 2
    /\ Cardinality(DOMAIN builder.changes) < canvas.width * canvas.height

\* C11: undo on an empty undo stack returns false and leaves the grid and both
\* stacks as they were; redo on an empty redo stack does the same.
C11_EmptyStacks ==
    /\ history.undo_stack = <<>> =>
           LET r == undo(history, canvas)
           IN ~r.ret /\ r.canvas = canvas /\ r.history = history
    /\ history.redo_stack = <<>> =>
           LET r == redo(history, canvas)
           IN ~r.ret /\ r.canvas = canvas /\ r.history = history
    /\ last \in {"undo_empty", "redo_empty"} => ~ret
    /\ last = "undo_empty" => history.undo_stack = <<>>
    /\ last = "redo_empty" => history.redo_stack = <<>>

\* An undo with nothing to undo was made while an operation waited on the
\* redo stack.
C11_Witness ==
    /\ last = "undo_empty"
    /\ ~ret
    /\ history.redo_stack # <<>>

\* C12: a push of an empty operation leaves both stacks as they were, and no
\* operation on either stack has an empty change list.
C12_NoEmptyStored ==
    /\ push(history, <<>>) = history
    /\ last = "push_empty" =>
           /\ Len(history.undo_stack) = gest.undone
           /\ Len(history.redo_stack) = gest.redone
    /\ \A i \in DOMAIN history.undo_stack : ~is_empty(history.undo_stack[i])
    /\ \A i \in DOMAIN history.redo_stack : ~is_empty(history.redo_stack[i])

\* A gesture that changed nothing ended while the redo stack held an
\* operation.
C12_Witness ==
    /\ last = "push_empty"
    /\ history.redo_stack # <<>>

\* The sequences that hold each element of S once.
Enumerations(S) ==
    {e \in [1..Cardinality(S) -> S] :
        \A i, j \in 1..Cardinality(S) : e[i] = e[j] => i = j}

\* Strictly ascending by (y, x).
AscendingYX(e) ==
    \A i, j \in DOMAIN e :
        i < j => \/ e[i].y < e[j].y
                 \/ (e[i].y = e[j].y /\ e[i].x < e[j].x)

\* C13: into_operation returns the recorded changes in strictly ascending
\* (y, x) order, no two at one coordinate; the order is fixed by the recorded
\* changes alone, whatever order the applies came in.
C13_SortedOperation ==
    LET op == into_operation(builder)
        recorded == {builder.changes[k] : k \in DOMAIN builder.changes}
    IN /\ AscendingYX(op)
       /\ \A i, j \in DOMAIN op :
              (op[i].x = op[j].x /\ op[i].y = op[j].y) => i = j
       /\ {op[i] : i \in DOMAIN op} = recorded
       /\ Len(op) = Cardinality(DOMAIN builder.changes)
       /\ \A e \in Enumerations(recorded) : AscendingYX(e) => e = op

\* After an insert the builder holds at least three changes, in two rows and
\* two columns.
C13_Witness ==
    /\ last = "apply_insert"
    /\ <<1, 0>> \in DOMAIN builder.changes
    /\ <<0, 1>> \in DOMAIN builder.changes
    /\ Len(into_operation(builder)) >= 3

\* The points of a list as a set of coordinates.
PointSet(ps) == {<<ps[i].x, ps[i].y>> : i \in DOMAIN ps}

\* No point occurs twice in the list.
NoDuplicates(ps) == \A i, j \in DOMAIN ps : ps[i] = ps[j] => i = j

\* The normalized box of the last call.
BoxMinX == Min(call.start.x, call.end.x)
BoxMaxX == Max(call.start.x, call.end.x)
BoxMinY == Min(call.start.y, call.end.y)
BoxMaxY == Max(call.start.y, call.end.y)
Box == (BoxMinX..BoxMaxX) \X (BoxMinY..BoxMaxY)

\* C16: bresenham_line returns a list that starts at start, ends at end and
\* holds no point twice; for start = end it is the list of start alone.
C16_LineEndpoints ==
    call.fn = "bresenham_line" =>
        /\ Len(points) >= 1
        /\ points[1] = call.start
        /\ points[Len(points)] = call.end
        /\ NoDuplicates(points)
        /\ call.start = call.end => points = <<call.start>>

\* A line was drawn leftwards and upwards between two points that share
\* neither a row, a column nor a diagonal.
C16_Witness ==
    /\ call.fn = "bresenham_line"
    /\ call.end.x < call.start.x
    /\ call.end.y < call.start.y
    /\ call.start.x - call.end.x # call.start.y - call.end.y
    /\ Len(points) >= 3

\* C17: rectangle_points with filled = false returns the cells of the
\* normalized box that lie on one of its four edges, each once.
C17_RectangleBorder ==
    (call.fn = "rectangle_points" /\ ~call.filled) =>
        /\ PointSet(points) =
               {k \in Box : \/ k[1] = BoxMinX \/ k[1] = BoxMaxX
                            \/ k[2] = BoxMinY \/ k[2] = BoxMaxY}
        /\ NoDuplicates(points)

\* An outline was asked for from the lower right corner to the upper left
\* one, of a box with an interior.
C17_Witness ==
    /\ call.fn = "rectangle_points" /\ ~call.filled
    /\ call.end.x + 2 <= call.start.x
    /\ call.end.y + 2 <= call.start.y
    /\ Len(points) >= 8

\* C18: rectangle_points with filled = true returns every cell of the
\* normalized box once, (max_x-min_x+1)*(max_y-min_y+1) points, rows in
\* ascending y and each row in ascending x.
C18_RectangleFilled ==
    (call.fn = "rectangle_points" /\ call.filled) =>
        /\ PointSet(points) = Box
        /\ Len(points) = (BoxMaxX - BoxMinX + 1) * (BoxMaxY - BoxMinY + 1)
        /\ NoDuplicates(points)
        /\ AscendingYX(points)

\* A filled box of several rows and columns, wider than tall, was asked for
\* with its corners in reverse order.
C18_Witness ==
    /\ call.fn = "rectangle_points" /\ call.filled
    /\ call.end.x < call.start.x
    /\ call.end.y < call.start.y
    /\ BoxMaxX - BoxMinX > BoxMaxY - BoxMinY
    /\ Len(points) >= 6

\* The radii of ellipse_points for the last call.
BoxRx == (BoxMaxX - BoxMinX) \div 2
BoxRy == (BoxMaxY - BoxMinY) \div 2

\* C19: ellipse_points with both radii 0 returns the centre alone; with one
\* radius 0 it returns the segment through the centre along the other axis,
\* from the box's minimum to its maximum on that axis, each cell once.
C19_EllipseDegenerate ==
    call.fn = "ellipse_points" =>
        /\ (BoxRx = 0 /\ BoxRy = 0) =>
               points = <<Point_new(BoxMinX, BoxMinY)>>
        /\ (BoxRx = 0 /\ BoxRy > 0) =>
               /\ PointSet(points) = {BoxMinX} \X (BoxMinY..BoxMaxY)
               /\ Len(points) = BoxMaxY - BoxMinY + 1
               /\ NoDuplicates(points)
        /\ (BoxRx > 0 /\ BoxRy = 0) =>
               /\ PointSet(points) = (BoxMinX..BoxMaxX) \X {BoxMinY}
               /\ Len(points) = BoxMaxX - BoxMinX + 1
               /\ NoDuplicates(points)

\* An ellipse was asked for in a box two cells wide and an even number of
\* cells, at least four, tall.
C19_Witness ==
    /\ call.fn = "ellipse_points"
    /\ BoxMaxX - BoxMinX = 1
    /\ BoxMaxY - BoxMinY >= 3
    /\ (BoxMaxY - BoxMinY) % 2 = 1
    /\ Len(points) >= 4

\* C20: brush_points returns the centre alone for size 1 and, for size 2 or
\* 3, every point of the square of side 2*(size-1)+1 centred on the centre,
\* each once; the brush size stays within 1..3 under the size keys.
C20_BrushSquare ==
    /\ brush_size \in 1..3
    /\ call.fn = "brush_points" =>
           LET radius == call.size - 1
               side == 2 * radius + 1
           IN /\ call.size = 1 => points = <<call.start>>
              /\ PointSet(points) =
                     ((call.start.x - radius)..(call.start.x + radius))
                     \X ((call.start.y - radius)..(call.start.y + radius))
              /\ Len(points) = side * side
              /\ NoDuplicates(points)

\* The largest brush was stamped, and the size was then taken back down
\* to the smallest.
C20_Witness ==
    /\ call.fn = "brush_points"
    /\ call.size = 3
    /\ Len(points) = 25
    /\ brush_size = 1

\* Two coordinates one step apart along a row or a column.
Adjacent4(a, b) ==
    \/ (a[1] = b[1] /\ (a[2] = b[2] + 1 \/ a[2] = b[2] - 1))
    \/ (a[2] = b[2] /\ (a[1] = b[1] + 1 \/ a[1] = b[1] - 1))

\* The cells of c that hold target.
Holding(c, target) == {k \in Coords(c) : get(c, k[1], k[2]) = target}

\* R with the cells holding target that are 4-adjacent to it, until none is
\* left to add.
RECURSIVE Grow(_, _, _)
Grow(c, target, R) ==
    LET more == {k \in Holding(c, target) \ R :
                     \E r \in R : Adjacent4(k, r)}
    IN IF more = {} THEN R ELSE Grow(c, target, R \cup more)

\* The cells reachable from start by 4-adjacent steps through cells that
\* hold target.
Reach(c, start, target) ==
    Grow(c, target, {<<start.x, start.y>>} \cap Holding(c, target))

\* C14: for a start on the canvas and target # replacement, flood_fill_points
\* returns the cells reachable from start by 4-adjacent steps through cells
\* holding target, each once and none off the canvas; its loop has ended with
\* the queue empty.
C14_FloodRegion ==
    (/\ call.fn = "flood_fill_points"
     /\ in_bounds_i32(canvas, call.start.x, call.start.y)
     /\ call.target # call.replacement) =>
        /\ PointSet(points) = Reach(canvas, call.start, call.target)
        /\ NoDuplicates(points)
        /\ PointSet(points) \subseteq Coords(canvas)
        /\ get(canvas, call.start.x, call.start.y) # call.target =>
               points = <<>>
        /\ flood_run(canvas, call.start, call.target).queue = <<>>

\* A fill from a corner of a canvas of three rows went round a painted cell
\* into another row and stopped short of a blank cell that only a diagonal
\* step would reach.
C14_Witness ==
    /\ call.fn = "flood_fill_points"
    /\ call.target = blank
    /\ call.replacement # blank
    /\ canvas.width = 3 /\ canvas.height = 3
    /\ call.start = Point_new(0, 0)
    /\ Len(points) >= 4
    /\ \E k \in Holding(canvas, blank) \ PointSet(points) :
           \E q \in PointSet(points) :
               /\ k[1] - q[1] \in {-1, 1}
               /\ k[2] - q[2] \in {-1, 1}

\* C15: flood_fill_points returns the empty list when target = replacement or
\* start is off the canvas, whatever the canvas holds; a fill click on a cell
\* that already holds the replacement changes no cell and leaves both stacks
\* of the History as they were.
C15_FloodNoop ==
    /\ \A x \in Coord, y \in Coord, target \in CellValues,
          replacement \in CellValues :
           (target = replacement \/ ~in_bounds_i32(canvas, x, y)) =>
               flood_fill_points(canvas, Point_new(x, y), target,
                                 replacement) = <<>>
    /\ \A x \in UCoord, y \in UCoord, spec \in FillSpecs :
           get_i32(canvas, x, y) = Some(draw_cell(spec)) =>
               LET r == fill_click(canvas, history, Point_new(x, y), spec)
               IN r.canvas = canvas /\ r.history = history /\ is_empty(r.op)
    /\ last = "fill_same" =>
           /\ gest.post = gest.pre
           /\ canvas = gest.pre
           /\ ~gest.nonempty
           /\ Len(history.undo_stack) = gest.undone
           /\ Len(history.redo_stack) = gest.redone

\* A fill click landed on a cell that already held the replacement, on a
\* canvas holding something else as well, while an undone operation waited
\* on the redo stack.
C15_Witness ==
    /\ last = "fill_same"
    /\ history.redo_stack # <<>>
    /\ Cardinality({canvas.cells[i] : i \in DOMAIN canvas.cells}) >= 2

\* C21: a failed load is atomic. The step that confirms the load prompt with
\* load_canvas returning an error leaves the canvas, both History stacks and
\* the current file as they were, and every other field of the application
\* but the status; the prompt is closed after it.
C21_FailedLoadAtomic ==
    [][last' = "load_err" =>
          /\ prompt.kind = "Load"
          /\ prompt' = PromptNone
          /\ canvas' = canvas
          /\ history' = history
          /\ current_file' = current_file
          /\ UNCHANGED <<tool, brush_char, color, brush_size, filled_shapes,
                         mouse_mode, crashed>>]_vars

\* A load failed on a painted canvas with an operation to undo.
C21_Witness ==
    /\ last = "load_err"
    /\ prompt = PromptNone
    /\ history.undo_stack # <<>>
    /\ Painted(canvas)

\* A row of characters without the blank characters that end it.
RECURSIVE TrimEnd(_)
TrimEnd(row) ==
    IF row # <<>> /\ row[Len(row)] = " "
    THEN TrimEnd(SubSeq(row, 1, Len(row) - 1))
    ELSE row

\* The rows 0..y of a canvas as lines of text, each without its trailing
\* blank cells, a line feed between one line and the next.
RECURSIVE TrimmedRows(_, _)
TrimmedRows(c, y) ==
    LET row == TrimEnd(ascii_row(c, y))
                   \o (IF y + 1 < c.height THEN <<LF>> ELSE <<>>)
    IN IF y = 0 THEN row ELSE TrimmedRows(c, y - 1) \o row

\* The last save wrote the plain-text form.
SavedAsText ==
    /\ last = "save_ok"
    /\ current_file # None
    /\ ~is_json(CHOOSE path \in current_file : TRUE)

\* C22: the plain-text form of a grid has one line per row, holding that
\* row's characters with the trailing blank cells trimmed, and nothing but
\* characters: what a save to a plain-text path wrote is the rows of the
\* canvas, each cut after its last non-blank cell, one per line.
C22_PlainTextTrimmed ==
    SavedAsText =>
        /\ written = Some(TrimmedRows(canvas, canvas.height - 1))
        /\ \A t \in written : \A i \in DOMAIN t : Len(t[i]) = 1

\* C23: for every interleaving of undo and redo keys with the press, drag and
\* release of a freehand gesture that pushed an operation, the undo key right
\* after the release restores the canvas the gesture began on, and the redo
\* key right after that undo restores the canvas the gesture was released on.
C23_InterleavedInverse ==
    /\ (phase = "undone" /\ gest.nonempty) => canvas = gest.pre
    /\ (phase = "redone" /\ gest.nonempty) => canvas = gest.post

\* C24: after a successful load both History stacks are empty, and in no
\* later state is an operation whose changes were captured on the grid before
\* that load on a stack: in particular the release that ends a freehand drag
\* begun before the load prompt was opened pushes no such operation.
C24_NoCrossGridOperation ==
    /\ last = "load_ok" =>
           (history.undo_stack = <<>> /\ history.redo_stack = <<>>)
    /\ stale # "pushed"

\* C25: in every state of the application with no gesture in progress and a
\* non-empty undo stack, the undo key followed at once by the redo key leaves
\* the canvas as it was before the undo, also when the canvas was shrunk and
\* regrown since the operation was pushed.
C25_UndoRedoIdentity ==
    (/\ run.undos = 1
     /\ run.redos = 1
     /\ run.idle
     /\ run.history.undo_stack # <<>>) => canvas = run.canvas

\* The Grid invariant: width and height at least 1, one cell per coordinate.
GridInvariant(c) ==
    /\ c.width >= 1
    /\ c.height >= 1
    /\ Len(c.cells) = c.width * c.height

\* C26: every canvas a successful load installs satisfies the Grid invariant.
\* load_canvas returns no Canvas whose width, height and cells disagree, the
\* canvas in place after a load that succeeded has one cell per coordinate,
\* and no read of a cell indexes past the cells.
C26_LoadedGridInvariant ==
    /\ \A c \in loaded : GridInvariant(c)
    /\ last = "load_ok" => GridInvariant(canvas)
    /\ ~crashed

\* The value a canvas holds at the builder key k = <<x, y>>.
At(c, k) == get(c, k[1], k[2])

\* The step is an apply call that writes A at a coordinate k which the builder
\* recorded with before = A and which holds the B # A the builder wrote.
PaintsBack(k) ==
    /\ last' \in {"apply_oob", "apply_noop", "apply_insert", "apply_update"}
    /\ k \in DOMAIN builder.changes
    /\ builder.changes[k].after = At(canvas, k)
    /\ builder.changes[k].before # At(canvas, k)
    /\ At(canvas', k) = builder.changes[k].before

\* The builder's operation is non-empty and has exactly one entry for k, with
\* before = after = A.
KeptDegenerate(b, k, A) ==
    LET op == into_operation(b)
    IN /\ ~is_empty(op)
       /\ \E i \in DOMAIN op :
              /\ op[i] = [x |-> k[1], y |-> k[2], before |-> A, after |-> A]
              /\ \A j \in DOMAIN op :
                     (op[j].x = k[1] /\ op[j].y = k[2]) => j = i

\* The indices of the entries of op whose before and after are equal.
Degenerate(op) == {i \in DOMAIN op : op[i].before = op[i].after}

\* The step pushes the builder's operation, which has a degenerate entry.
PushesDegenerate ==
    /\ last' \in {"push", "push_empty"}
    /\ Degenerate(into_operation(builder)) # {}

\* The push stored the operation on top and cleared the redo stack.
StoredOnTop ==
    /\ last' = "push"
    /\ history'.redo_stack = <<>>
    /\ history'.undo_stack # <<>>
    /\ history'.undo_stack[Len(history'.undo_stack)] = into_operation(builder)

\* The step is the undo right after the push of a gesture that changed the
\* canvas through its builder alone, and the operation on top has a
\* degenerate entry.
UndoesDegenerate ==
    /\ phase = "pushed" /\ gest.pure /\ gest.nonempty
    /\ last' \in {"undo", "undo_empty"}
    /\ history.undo_stack # <<>>
    /\ Degenerate(history.undo_stack[Len(history.undo_stack)]) # {}

\* The undo returned true and no cell of a degenerate entry changed: no cell
\* at all when every entry is degenerate.
UndoneInPlace ==
    LET op == history.undo_stack[Len(history.undo_stack)]
    IN /\ last' = "undo" /\ ret' = TRUE
       /\ \A i \in Degenerate(op) :
              get(canvas', op[i].x, op[i].y) = get(canvas, op[i].x, op[i].y)
       /\ Degenerate(op) = DOMAIN op => canvas' = canvas

Stored(h) ==
    {h.undo_stack[i] : i \in DOMAIN h.undo_stack}
        \cup {h.redo_stack[i] : i \in DOMAIN h.redo_stack}

\* C28: in the application, whatever mouse, key, prompt and resize events
\* came, every CellChange of every operation on the undo stack or the redo
\* stack has before # after.
C28_NoDegenerateStored ==
    \A op \in Stored(history) : Degenerate(op) = {}

\* A freehand drag with only undo and redo keys inside it was pushed, and the
\* canvas it left is not the one its operation gives when replayed from the
\* canvas of the press: an undo or redo changed the canvas during the drag.
C28_Witness ==
    /\ last = "release" /\ phase = "pushed" /\ gest.nonempty
    /\ history.undo_stack # <<>>
    /\ LET op == history.undo_stack[Len(history.undo_stack)]
       IN /\ Degenerate(op) = {}
          /\ gest.post # apply_after(op, gest.pre)

\* The operations of the pushes lo..hi of the trail, in push order.
PushedOps(lo, hi) == [i \in 1..(hi - lo + 1) |-> trail.pushes[lo + i - 1].op]

\* C29: the trail holds the m > N non-empty operations pushed with no undo in
\* between onto a History of capacity N >= 1, then the undos made right after
\* them. Before the first undo the undo stack is the last N pushes in push
\* order; the first N undos return true, every later one returns false, and
\* from the N-th undo on the canvas is the one push m - N left.
C29_EvictionOldestFirst ==
    LET N == history.capacity
        m == Len(trail.pushes)
    IN (N >= 1 /\ m > N) =>
           /\ trail.undos = 0 =>
                  history.undo_stack = PushedOps(m - N + 1, m)
           /\ trail.undos <= N =>
                  /\ trail.oks = trail.undos
                  /\ history.undo_stack = PushedOps(m - N + 1, m - trail.undos)
           /\ trail.undos >= N =>
                  /\ trail.oks = N
                  /\ history.undo_stack = <<>>
                  /\ canvas = trail.pushes[m - N].post
           /\ (trail.undos > N /\ last \in {"key_undo", "key_undo_empty"}) =>
                  (last = "key_undo_empty" /\ ret = FALSE)

\* Three operations were pushed onto a History of capacity 2 and three undos
\* followed: two returned true, the third false, and the canvas is the one
\* the first push left, which is not the canvas before it.
C29_Witness ==
    /\ history.capacity = 2
    /\ Len(trail.pushes) = 3
    /\ trail.undos = 3 /\ trail.oks = 2
    /\ last = "key_undo_empty" /\ ret = FALSE
    /\ canvas = trail.pushes[1].post
    /\ Painted(canvas)

\* The top d operations of the stack u, the topmost first: the order in which
\* d undos revert them.
TopDown(u, d) == [i \in 1..d |-> u[Len(u) + 1 - i]]

\* Of the n operations undone from the stack u, the r undone last, the one
\* undone last first: the order in which r redos re-apply them.
BackUp(u, n, r) == [i \in 1..r |-> u[Len(u) - n + i]]

\* Each operation of ops in turn written back with its before values.
RECURSIVE Revert(_, _)
Revert(ops, c) ==
    IF ops = <<>> THEN c ELSE Revert(Tail(ops), apply_before(Head(ops), c))

\* Each operation of ops in turn written with its after values.
RECURSIVE Reapply(_, _)
Reapply(ops, c) ==
    IF ops = <<>> THEN c ELSE Reapply(Tail(ops), apply_after(Head(ops), c))

\* C30: in a run of n undo keys followed by redo keys, all returning true and
\* no other event in between, each undo reverts the operation on top of the
\* undo stack and moves it to the redo stack, each redo re-applies the
\* operation undone last and moves it back; after the n-th redo both stacks
\* are what they were before the first undo, and so is the canvas when
\* nothing but the stacked operations had changed it.
C30_StackOrder ==
    (run.undos >= 1 /\ run.ok) =>
        LET u == run.history.undo_stack
            n == run.undos
            r == run.redos
        IN /\ n <= Len(u)
           /\ history.undo_stack = SubSeq(u, 1, Len(u) - (n - r))
           /\ history.redo_stack =
                  run.history.redo_stack \o TopDown(u, n - r)
           /\ canvas = Reapply(BackUp(u, n, r),
                               Revert(TopDown(u, n), run.canvas))
           /\ r = n => history = run.history
           /\ (r = n /\ run.sync) => canvas = run.canvas

\* Two operations that changed the canvas were on the undo stack, two undos
\* blanked the canvas and two redos followed, all returning true: the canvas
\* and the stacks are those before the first undo.
C30_Witness ==
    /\ run.undos = 2 /\ run.redos = 2 /\ run.ok /\ run.sync
    /\ last = "key_redo" /\ ret = TRUE
    /\ Len(run.history.undo_stack) = 2
    /\ Painted(run.canvas)
    /\ ~Painted(Revert(TopDown(run.history.undo_stack, 2), run.canvas))
    /\ canvas = run.canvas /\ history = run.history

\* The distance left to the end point of the line being walked, per axis.
LeftX(c) == abs(c.loop.k.x1 - c.loop.x0)
LeftY(c) == abs(c.loop.k.y1 - c.loop.y0)

\* The step is a loop iteration that did not break.
LineIterates == call.fn = "line_loop" /\ last' = "line_iter"

\* C31: every iteration of the loop of bresenham_line that does not reach the
\* end point moves x0 or y0, or both, one step toward it and neither away
\* from it; and the loop, once begun, reaches its break.
C31_LineTerminates ==
    /\ [][LineIterates =>
              /\ LeftX(call') \in {LeftX(call), LeftX(call) - 1}
              /\ LeftY(call') \in {LeftY(call), LeftY(call) - 1}
              /\ LeftX(call') + LeftY(call') < LeftX(call) + LeftY(call)]_vars
    /\ (call.fn = "line_loop") ~> (call.fn = "line_done")

\* A steep line with distinct end columns was walked to its break, and its
\* last step moved y0 alone: x0 had arrived, the case of the x branch that
\* does nothing.
C31_Witness ==
    /\ call.fn = "line_done" /\ last = "line_break"
    /\ abs(call.end.y - call.start.y) > abs(call.end.x - call.start.x)
    /\ call.end.x # call.start.x
    /\ points[Len(points)] = call.end
    /\ points[Len(points) - 1].x = call.end.x

\* The step is a Drag event of a freehand gesture: drag_left_draw calls
\* bresenham_line(last, point) and stamps its points.
FreehandDrags == mouse_mode.kind = "FreeDrag" /\ last' = "drag"

\* The points of ps from the first to the last: each next one is at most one
\* column and at most one row away.
Connected8(ps) ==
    \A i \in 1..(Len(ps) - 1) :
        /\ abs(ps[i + 1].x - ps[i].x) <= 1
        /\ abs(ps[i + 1].y - ps[i].y) <= 1

\* C32: for the mouse position a the drag came from and the position b it
\* went to, bresenham_line(a, b) has max(|b.x - a.x|, |b.y - a.y|) + 1 points,
\* each next to the one before it (8-connected), from a to b; and after the
\* drag every one of them holds the gesture's cell: no gap is left unpainted.
C32_LineConnected ==
    [][FreehandDrags =>
           LET a == mouse_mode.last
               b == mouse_mode'.last
               ps == bresenham_line(a, b)
           IN /\ Len(ps) = Max(abs(b.x - a.x), abs(b.y - a.y)) + 1
              /\ ps[1] = a /\ ps[Len(ps)] = b
              /\ Connected8(ps)
              /\ \A i \in DOMAIN ps :
                     get(canvas', ps[i].x, ps[i].y)
                         = draw_cell(mouse_mode.spec)]_vars

\* A freehand drag ended at (3, 2) and the canvas holds exactly four painted
\* cells, (0, 0) among them: a press at (0, 0) and the three cells that join
\* it to a position three columns and two rows away.
C32_Witness ==
    /\ last = "drag" /\ mouse_mode.kind = "FreeDrag"
    /\ mouse_mode.last = Point_new(3, 2)
    /\ get(canvas, 0, 0) # blank
    /\ Cardinality({i \in DOMAIN canvas.cells : canvas.cells[i] # blank}) = 4

\* The last call of ellipse_points returned, and both its radii are at least 1.
RoundEllipse ==
    call.fn = "ellipse_done" /\ BoxRx >= 1 /\ BoxRy >= 1

\* The centre column and the centre row of ellipse_points for the last call.
BoxCx == BoxMinX + BoxRx
BoxCy == BoxMinY + BoxRy

\* C33: for rx >= 1 and ry >= 1 ellipse_points returns no point twice, the
\* set of its points is its own mirror image about the column cx and about
\* the row cy, and the call, once in its loops, leaves both of them.
C33_EllipseSymmetric ==
    /\ [][(RoundEllipse =>
               /\ NoDuplicates(points)
               /\ \A q \in PointSet(points) :
                      /\ <<2 * BoxCx - q[1], q[2]>> \in PointSet(points)
                      /\ <<q[1], 2 * BoxCy - q[2]>> \in PointSet(points))']_vars
    /\ (call.fn = "ellipse_loop") ~> (call.fn = "ellipse_return")

\* An ellipse with rx = 3 and ry = 2 was returned: more than the four extreme
\* points, and what the recursive form of the loops returns.
C33_Witness ==
    /\ RoundEllipse
    /\ BoxRx = 3 /\ BoxRy = 2
    /\ Len(points) > 4
    /\ points = ellipse_points(call.start, call.end)

\* C34: for rx >= 1 and ry >= 1 every point ellipse_points returns is at most
\* rx columns and ry rows from the centre, so inside the box of the two
\* corners, and the four extreme points (cx - rx, cy), (cx + rx, cy),
\* (cx, cy - ry) and (cx, cy + ry) are among the points.
C34_EllipseBox ==
    RoundEllipse =>
        /\ \A q \in PointSet(points) :
               /\ abs(q[1] - BoxCx) <= BoxRx /\ abs(q[2] - BoxCy) <= BoxRy
               /\ q \in Box
        /\ {<<BoxCx - BoxRx, BoxCy>>, <<BoxCx + BoxRx, BoxCy>>,
            <<BoxCx, BoxCy - BoxRy>>, <<BoxCx, BoxCy + BoxRy>>}
               \subseteq PointSet(points)


\* A shape gesture is in progress and the step is the event tagged tag.
ShapeEvent(tag) == mouse_mode.kind = "ShapeDrag" /\ last' = tag

\* The cells the shape between the gesture's start and end covers: the brush
\* stamp around each of its points.
ShapeStamp(mode, end) ==
    LET ps == shape_points(mode.tool, mode.start, end, mode.filled)
    IN UNION {PointSet(brush_points(ps[i], mode.spec.size)) : i \in DOMAIN ps}

\* The step left the canvas and the History as they were.
GridAndHistoryKept == canvas' = canvas /\ history' = history

\* The step applied the shape that ends at end: the covered cells hold the
\* gesture's cell and every other cell is as before.
ShapeApplied(end) ==
    /\ canvas'.width = canvas.width /\ canvas'.height = canvas.height
    /\ \A k \in Coords(canvas) :
           get(canvas', k[1], k[2])
               = (IF k \in ShapeStamp(mouse_mode, end)
                  THEN draw_cell(mouse_mode.spec)
                  ELSE get(canvas, k[1], k[2]))

\* The step pushed nothing, the canvas being as before, or pushed the one
\* operation that takes the canvas back.
AtMostOnePush ==
    IF canvas' = canvas THEN history' = history
    ELSE /\ Len(history'.undo_stack) = Len(history.undo_stack) + 1
         /\ SubSeq(history'.undo_stack, 1, Len(history.undo_stack))
                = history.undo_stack
         /\ history'.redo_stack = <<>>
         /\ undo(history', canvas').canvas = canvas

\* C35: the press of a Line, Rectangle or Circle gesture and each of its Drag
\* events leave the canvas and the History as they were, a Drag changing the
\* current point alone; Esc during the gesture leaves them as they were too
\* and makes the mouse mode Idle; the release applies the shape between the
\* start and the release position (the current point when the release is off
\* the canvas), pushes at most one operation and makes the mouse mode Idle.
C35_ShapeGesture ==
    [][/\ last' = "press_shape"
           => /\ GridAndHistoryKept
              /\ mouse_mode'.kind = "ShapeDrag"
              /\ mouse_mode'.current = mouse_mode'.start
       /\ ShapeEvent("drag")
           => /\ GridAndHistoryKept
              /\ \E q \in Hover :
                     mouse_mode' = [mouse_mode EXCEPT !.current = q]
       /\ ShapeEvent("key_esc")
           => GridAndHistoryKept /\ mouse_mode' = Idle
       /\ (ShapeEvent("release") \/ ShapeEvent("release_empty"))
           => /\ \E end \in Hover \cup {mouse_mode.current} :
                     ShapeApplied(end)
              /\ AtMostOnePush
              /\ mouse_mode' = Idle]_vars

\* A shape gesture was cancelled with Esc and the next one was released away
\* from its start: its shape is on the canvas, two cells or more, and the
\* undo stack holds its one operation.
C35_Witness ==
    /\ last = "release" /\ status = "Shape cancelled"
    /\ mouse_mode = Idle
    /\ Len(history.undo_stack) = 1
    /\ Cardinality({i \in DOMAIN canvas.cells : canvas.cells[i] # blank}) >= 2

\* The step is a press with a non-Fill tool arriving during a freehand drag.
DiscardingPress ==
    mouse_mode.kind = "FreeDrag" /\ last' \in {"press_free", "press_shape"}

\* The cells under the brush stamp of the press that started the freehand
\* gesture now in progress.
PressStamp(mode) == PointSet(brush_points(mode.last, mode.spec.size))

\* The changes of the builder b lie under the stamp and hold, as their before
\* values, the cells of the canvas c.
RecordsOnly(b, stamp, c) ==
    \A k \in DOMAIN b.changes :
        /\ k \in stamp
        /\ b.changes[k].before = get(c, k[1], k[2])

\* The step is the release of a freehand gesture.
FreehandRelease ==
    mouse_mode.kind = "FreeDrag" /\ last' \in {"release", "release_empty"}

\* C36: a press with a non-Fill tool during a freehand drag leaves both
\* History stacks as they were and every cell outside its own stamp as the
\* drag left it (a shape press leaves the whole canvas); the builder of the
\* gesture it starts holds the press's own writes alone, with the cells the
\* dropped builder wrote as their before values. Whenever a freehand gesture
\* is released, the operation pushed records as before values the cells of
\* the canvas at that gesture's press: it holds no write made before it.
C36_BuilderDiscarded ==
    /\ [][DiscardingPress =>
              /\ history' = history
              /\ IF mouse_mode'.kind = "FreeDrag"
                 THEN /\ \A k \in Coords(canvas) \ PressStamp(mouse_mode') :
                             get(canvas', k[1], k[2]) = get(canvas, k[1], k[2])
                      /\ RecordsOnly(mouse_mode'.builder,
                                     PressStamp(mouse_mode'), canvas)
                 ELSE /\ canvas' = canvas
                      /\ mouse_mode'.kind = "ShapeDrag"]_vars
    /\ [][FreehandRelease =>
              /\ canvas' = canvas
              /\ IF mouse_mode.builder = OperationBuilder_new
                 THEN history' = history
                 ELSE LET n == Len(history'.undo_stack)
                          op == history'.undo_stack[n]
                      IN /\ n = Len(history.undo_stack) + 1
                         /\ \A i \in DOMAIN op :
                                op[i].before = get(g0, op[i].x, op[i].y)]_vars

\* A freehand gesture was released and its operation is the only one stored,
\* with fewer changes than the canvas holds painted cells: the other cells
\* were written by a drag whose builder a press dropped.
C36_Witness ==
    /\ last = "release" /\ mouse_mode = Idle
    /\ Len(history.undo_stack) = 1 /\ history.redo_stack = <<>>
    /\ Len(history.undo_stack[1])
           < Cardinality({i \in DOMAIN canvas.cells : canvas.cells[i] # blank})

\* The tool, character, colour and brush size selected in the App.
Selected ==
    [tool |-> tool, ch |-> brush_char, color |-> color, size |-> brush_size]

\* What the gesture in progress draws with.
Parameters(mode) ==
    IF mode.kind = "FreeDrag" THEN <<mode.spec>>
    ELSE IF mode.kind = "ShapeDrag" THEN <<mode.spec, mode.tool, mode.filled>>
    ELSE <<>>

\* The step is an event that is none of the gesture's own: a key, a wheel
\* turn, a right click or a toolbar button.
ParameterEvent ==
    last' \in {"key_tool", "key_size_up", "key_size_down", "key_fill_toggle",
               "key_brush_char", "key_color", "scroll_up", "scroll_down",
               "sample", "toolbar"}

\* The cells under the brush stamps of size size around the points ps.
Stamps(ps, size) ==
    UNION {PointSet(brush_points(ps[i], size)) : i \in DOMAIN ps}

\* The step wrote the cell of spec to the cells of stamp that lie on the
\* canvas, and to no other cell.
Wrote(stamp, spec) ==
    /\ canvas'.width = canvas.width /\ canvas'.height = canvas.height
    /\ \A k \in Coords(canvas) :
           get(canvas', k[1], k[2])
               = (IF k \in stamp
                  THEN (IF spec.tool = "Eraser" THEN blank
                        ELSE PaintCell_new(spec.ch, spec.color))
                  ELSE get(canvas, k[1], k[2]))

\* C37: the press of a freehand or shape gesture stores the tool, character,
\* colour, brush size and filled flag selected at that moment; no key, wheel
\* turn, right click, toolbar button or drag changes what is stored, nor
\* writes a cell of its own; and the press, every drag and the release write
\* with what is stored: the cell of the stored tool, character and colour,
\* under stamps of the stored size, along the shape of the stored tool and
\* filled flag.
C37_ParametersFixed ==
    [][/\ last' \in {"press_free", "press_shape"}
           => /\ mouse_mode'.spec = Selected
              /\ mouse_mode'.kind = "ShapeDrag"
                     => /\ mouse_mode'.tool = tool
                        /\ mouse_mode'.filled = filled_shapes
              /\ mouse_mode'.kind = "FreeDrag"
                     => Wrote(Stamps(<<mouse_mode'.last>>, brush_size),
                              Selected)
       /\ ParameterEvent
           => /\ mouse_mode' = mouse_mode
              /\ canvas' = canvas
       /\ (mouse_mode.kind # "Idle" /\ last' = "drag")
           => /\ Parameters(mouse_mode') = Parameters(mouse_mode)
              /\ mouse_mode.kind = "FreeDrag"
                     => Wrote(Stamps(bresenham_line(mouse_mode.last,
                                                    mouse_mode'.last),
                                     mouse_mode.spec.size),
                              mouse_mode.spec)
       /\ (ShapeEvent("release") \/ ShapeEvent("release_empty"))
           => \E end \in Hover \cup {mouse_mode.current} :
                  Wrote(Stamps(shape_points(mouse_mode.tool, mouse_mode.start,
                                            end, mouse_mode.filled),
                               mouse_mode.spec.size),
                        mouse_mode.spec)
       /\ FreehandRelease => canvas' = canvas]_vars

\* A Rectangle gesture pressed at (0, 0) with the filled flag off was released
\* at (2, 2) after the flag was turned on: the border is painted and the cell
\* inside it is blank.
C37_Witness ==
    /\ last = "release" /\ mouse_mode = Idle
    /\ tool = "Rectangle" /\ filled_shapes
    /\ get(canvas, 1, 1) = blank
    /\ Cardinality({i \in DOMAIN canvas.cells : canvas.cells[i] # blank}) = 8

========================================================================
